---- MODULE Spec2Model ----
(***************************************************************************)
(* forge-e2e-gnumeric: the test-case extractor (types.rs), the result      *)
(* extractors and the three execution strategies of TestRunner (runner.rs) *)
(* and the sheet export of GnumericEngine (engine.rs).                     *)
(*                                                                         *)
(* Text is a sequence of one-character strings, so that split, trim,       *)
(* replace and parse act on characters as the code does.  An f64 is a      *)
(* signed decimal with 17 fractional digits, kept in three limbs that fit  *)
(* TLC's integers: value = (+/-)(i + c * 10^-8 + f * 10^-17).  Arithmetic  *)
(* on it is exact; the inputs drawn below are values on which the f64      *)
(* comparisons of the code give the same answer.                           *)
(***************************************************************************)
EXTENDS Integers, Sequences, FiniteSets, TLC

VARIABLES
    doc,          \* extraction: the parsed TestSpec handed to the extractors
    ext_cases,    \* extraction: what extract_test_cases returned
    ext_skips,    \* extraction: what extract_skip_cases returned
    tree_in,      \* loading: the tests directory handed to load_test_cases
    load_out,     \* loading: what load_test_cases returned
    table_in,     \* table data: the TestSpec handed to extract_table_data_yaml
    table_out,    \* table data: the fragment rendered, and what a parser reads from it
    probe_in,     \* sheet probing: the output directory after the oracle's conversion
    probe_out,    \* sheet probing: what xlsx_to_csv_all_sheets returned
    csv_in,       \* result extraction: the lines of the exported CSV file
    exp_in,       \* result extraction: the expected value given to find_result_in_csv
    count_in,     \* result extraction: the count given to parse_batch_csv
    batch_out,    \* result extraction: what parse_batch_csv returned
    find_out,     \* result extraction: what find_result_in_csv returned
    test_cases,   \* TestRunner.test_cases
    skip_cases,   \* TestRunner.skip_cases
    mode,         \* the strategy being executed
    pc,           \* position inside the strategy
    results,      \* the result list under construction
    cur,          \* the result of the case just executed, not yet accumulated
    observed,     \* the results handed to on_result so far
    ws,           \* the temporary workspace of the call in progress
    csv_files,    \* run_test: the sheet paths returned by xlsx_to_csv_all_sheets
    calls,        \* log of engine invocations of the run in progress
    envlog,       \* log of what the environment did in the run in progress
    returned      \* per strategy: the list its last completed run returned

vars == <<doc, ext_cases, ext_skips, tree_in, load_out, table_in, table_out,
          probe_in, probe_out, csv_in, exp_in, count_in, batch_out, find_out,
          test_cases, skip_cases, mode, pc, results, cur, observed, ws, csv_files,
          calls, envlog, returned>>

None == "None"

(***************************************************************************)
(* Text                                                                    *)
(***************************************************************************)
DigitChars == <<"0", "1", "2", "3", "4", "5", "6", "7", "8", "9">>

IsDigit(ch) == \E k \in 1..10 : DigitChars[k] = ch

DigitVal(ch) == (CHOOSE k \in 1..10 : DigitChars[k] = ch) - 1

RECURSIVE SplitFrom(_, _, _, _)
SplitFrom(s, sep, cell, acc) ==
    IF s = <<>> THEN Append(acc, cell)
    ELSE IF Head(s) = sep THEN SplitFrom(Tail(s), sep, <<>>, Append(acc, cell))
    ELSE SplitFrom(Tail(s), sep, Append(cell, Head(s)), acc)

\* str::split(sep): the pieces between separators, empty pieces included
Split(s, sep) == SplitFrom(s, sep, <<>>, <<>>)

RECURSIVE TrimStart(_, _)
\* the leading characters that belong to drop removed
TrimStart(s, drop) ==
    IF s # <<>> /\ Head(s) \in drop THEN TrimStart(Tail(s), drop) ELSE s

RECURSIVE TrimEnd(_, _)
\* the trailing characters that belong to drop removed
TrimEnd(s, drop) ==
    IF s # <<>> /\ s[Len(s)] \in drop THEN TrimEnd(SubSeq(s, 1, Len(s) - 1), drop) ELSE s

\* str::trim_matches(ch): every leading and every trailing ch removed
TrimMatches(s, ch) == TrimEnd(TrimStart(s, {ch}), {ch})

\* char::is_whitespace, on the characters the exported text holds
Whitespace == {" ", "\t"}

\* str::trim: leading and trailing whitespace removed
Trim(s) == TrimEnd(TrimStart(s, Whitespace), Whitespace)

RECURSIVE Remove(_, _)
\* str::replace(ch, ""): every ch removed
Remove(s, ch) ==
    IF s = <<>> THEN <<>>
    ELSE IF Head(s) = ch THEN Remove(Tail(s), ch)
    ELSE <<Head(s)>> \o Remove(Tail(s), ch)

IsPrefix(p, s) == Len(p) <= Len(s) /\ SubSeq(s, 1, Len(p)) = p

\* str::strip_prefix(p): the rest after p, or None
StripPrefix(s, p) ==
    IF IsPrefix(p, s) THEN [some |-> TRUE, rest |-> SubSeq(s, Len(p) + 1, Len(s))]
    ELSE [some |-> FALSE, rest |-> <<>>]

AllDigits(s) == \A k \in 1..Len(s) : IsDigit(s[k])

RECURSIVE DigitsVal(_)
DigitsVal(s) ==
    IF s = <<>> THEN 0 ELSE 10 * DigitsVal(SubSeq(s, 1, Len(s) - 1)) + DigitVal(s[Len(s)])

\* str::parse::<usize>: an optional '+', then one or more digits
ParseUsize(s) ==
    LET d == IF s # <<>> /\ Head(s) = "+" THEN Tail(s) ELSE s
    IN  IF d # <<>> /\ AllDigits(d) THEN [ok |-> TRUE, n |-> DigitsVal(d)]
        ELSE [ok |-> FALSE, n |-> 0]

(***************************************************************************)
(* f64                                                                     *)
(***************************************************************************)
Num(neg, i, c, f) == [neg |-> neg /\ (i # 0 \/ c # 0 \/ f # 0), i |-> i, c |-> c, f |-> f]

Zero == Num(FALSE, 0, 0, 0)

FromInt(n) == IF n < 0 THEN Num(TRUE, -n, 0, 0) ELSE Num(FALSE, n, 0, 0)

\* magnitudes, compared limb by limb
MagLt(a, b) ==
    \/ a.i < b.i
    \/ a.i = b.i /\ a.c < b.c
    \/ a.i = b.i /\ a.c = b.c /\ a.f < b.f

\* |a| - |b| for |a| >= |b|, with borrows
MagSub(a, b) ==
    LET bf == IF a.f < b.f THEN 1 ELSE 0
        f  == a.f - b.f + bf * 1000000000
        bc == IF a.c - bf < b.c THEN 1 ELSE 0
        c  == a.c - bf - b.c + bc * 100000000
    IN  Num(FALSE, a.i - bc - b.i, c, f)

\* |a| + |b|, with carries
MagAdd(a, b) ==
    LET f0 == a.f + b.f
        cf == IF f0 >= 1000000000 THEN 1 ELSE 0
        c0 == a.c + b.c + cf
        cc == IF c0 >= 100000000 THEN 1 ELSE 0
    IN  Num(FALSE, a.i + b.i + cc, c0 - cc * 100000000, f0 - cf * 1000000000)

\* (a - b).abs()
AbsDiff(a, b) ==
    IF a.neg = b.neg
    THEN IF MagLt(a, b) THEN MagSub(b, a) ELSE MagSub(a, b)
    ELSE MagAdd(a, b)

\* a < b for a, b >= 0
Lt(a, b) == MagLt(a, b)

\* the digit at position k of s, zero past its end
DigitAt(s, k) == IF k <= Len(s) THEN DigitVal(s[k]) ELSE 0

RECURSIVE DigitsRange(_, _, _)
\* the number spelled by positions from..to of s, padded with zeros
DigitsRange(s, from, to) ==
    IF to < from THEN 0 ELSE 10 * DigitsRange(s, from, to - 1) + DigitAt(s, to)

\* str::parse::<f64> on decimal text: an optional sign, digits, an optional
\* point and digits, at least one digit in all.  Fractional digits past the
\* 17th are below the resolution kept.  (Exponents and the inf/nan literals
\* do not occur in the text drawn below.)
ParseF64(s) ==
    LET signed == s # <<>> /\ Head(s) \in {"-", "+"}
        body   == IF signed THEN Tail(s) ELSE s
        parts  == Split(body, ".")
        ip     == parts[1]
        fp     == IF Len(parts) = 2 THEN parts[2] ELSE <<>>
        ok     == /\ Len(parts) <= 2
                  /\ AllDigits(ip) /\ AllDigits(fp)
                  /\ Len(ip) + Len(fp) >= 1
    IN  IF ok
        THEN [ok |-> TRUE,
              v  |-> Num(signed /\ Head(s) = "-", DigitsVal(ip),
                         DigitsRange(fp, 1, 8), DigitsRange(fp, 9, 17))]
        ELSE [ok |-> FALSE, v |-> Zero]

\* f64::EPSILON = 2.220446049250313e-16, as the least multiple of 10^-17 not
\* below it: for x a multiple of 10^-17, x < f64::EPSILON iff x < EPSILON
EpsilonUnits == 23

EPSILON == Num(FALSE, 0, 0, EpsilonUnits)

\* the 0.0001 of find_result_in_csv, in units of 10^-8
ToleranceUnits == 10000

TOLERANCE == Num(FALSE, 0, ToleranceUnits, 0)

(***************************************************************************)
(* Result extraction (runner.rs)                                           *)
(***************************************************************************)
\* what is found at a path: a text file of lines, or nothing
File(lines) == [exists |-> TRUE, lines |-> lines]

NoFile == [exists |-> FALSE, lines |-> <<>>]

Ok(v) == [ok |-> TRUE, v |-> v, err |-> None]

Err(msg) == [ok |-> FALSE, v |-> Zero, err |-> msg]

\* a line BufRead::lines could not decode: the iterator yields Err for it
ReadError == <<"<read error>">>

RECURSIVE MapCells(_)
MapCells(pieces) ==
    IF pieces = <<>> THEN <<>>
    ELSE <<Trim(TrimMatches(Head(pieces), "\""))>> \o MapCells(Tail(pieces))

\* line.split(',').map(|s| s.trim_matches('"').trim()).collect()
Cells(line) == MapCells(Split(line, ","))

cTEST == <<"t", "e", "s", "t", "_">>

cASSUMPTIONS_TEST == <<"a", "s", "s", "u", "m", "p", "t", "i", "o", "n", "s", ".">> \o cTEST

cRESULT == <<"r", "e", "s", "u", "l", "t">>

cTEST_RESULT == cTEST \o cRESULT

\* label.strip_prefix("test_") alone
StripLabelUnqualified(label) == StripPrefix(label, cTEST)

\* label.strip_prefix("assumptions.test_").or_else(|| label.strip_prefix("test_"))
StripLabel(label) ==
    IF StripPrefix(label, cASSUMPTIONS_TEST).some THEN StripPrefix(label, cASSUMPTIONS_TEST)
    ELSE StripPrefix(label, cTEST)

\* the body of the loop of parse_batch_csv for one line
BatchLine(res, line, count) ==
    IF line = ReadError THEN res
    ELSE LET cells == Cells(line)
             idx   == ParseUsize(StripLabel(cells[1]).rest)
             value == ParseF64(Remove(cells[2], ","))
         IN  IF /\ Len(cells) >= 2
                /\ StripLabel(cells[1]).some
                /\ idx.ok
                /\ idx.n < count
                /\ value.ok
             THEN [res EXCEPT ![idx.n + 1] = Ok(value.v)]
             ELSE res

RECURSIVE BatchLines(_, _, _)
BatchLines(res, lines, count) ==
    IF lines = <<>> THEN res
    ELSE BatchLines(BatchLine(res, Head(lines), count), Tail(lines), count)

\* TestRunner::parse_batch_csv; file is what fs::File::open finds at csv_path.
\* Slot idx of the code is position idx + 1.
parse_batch_csv(file, count) ==
    IF ~file.exists THEN [k \in 1..count |-> Err("Failed to open CSV: " \o "os error")]
    ELSE BatchLines([k \in 1..count |-> Err("Missing result in CSV output")],
                    file.lines, count)

IsResultLabel(cell) == cell = cRESULT \/ cell = cTEST_RESULT

\* (value - expected).abs() <= 0.0001: the boundary let in
WithinToleranceInclusive(value, expected) ==
    ~Lt(TOLERANCE, AbsDiff(value, expected))

\* (value - expected).abs() < 0.0001
WithinTolerance(value, expected) == Lt(AbsDiff(value, expected), TOLERANCE)

RECURSIVE FindInCells(_, _, _)
\* the loop over the cells of one line, from cell i on: the value returned
\* from inside it, or Err when the loop ends without returning
FindInCells(cells, i, expected) ==
    IF i > Len(cells) THEN Err("no match in line")
    ELSE LET labelled == IF IsResultLabel(cells[i]) /\ i + 1 <= Len(cells)
                         THEN ParseF64(Remove(cells[i + 1], ","))
                         ELSE [ok |-> FALSE, v |-> Zero]
             own      == ParseF64(Remove(cells[i], ","))
         IN  IF labelled.ok THEN Ok(labelled.v)
             ELSE IF own.ok /\ WithinTolerance(own.v, expected) THEN Ok(own.v)
             ELSE FindInCells(cells, i + 1, expected)

RECURSIVE FindInLines(_, _)
FindInLines(lines, expected) ==
    IF lines = <<>> THEN Err("Could not find result in CSV output")
    ELSE IF Head(lines) = ReadError THEN Err("Failed to read line")
    ELSE LET hit == FindInCells(Cells(Head(lines)), 1, expected)
         IN  IF hit.ok THEN hit ELSE FindInLines(Tail(lines), expected)

\* TestRunner::find_result_in_csv; file as for parse_batch_csv
find_result_in_csv(file, expected) ==
    IF ~file.exists THEN Err("Failed to open CSV") ELSE FindInLines(file.lines, expected)

\* the judgment of run_test and run_batch: (actual - expected).abs() < f64::EPSILON
Judged(actual, expected) == Lt(AbsDiff(actual, expected), EPSILON)

(***************************************************************************)
(* The exported text drawn as input                                        *)
(***************************************************************************)
Comma == <<",">>

Quote == <<"\"">>

t0 == <<"0">>

t2 == <<"2">>

t3 == <<"3">>

t7 == <<"7">>

t42 == <<"4", "2">>

t150 == <<"1", "5", "0">>

t160 == <<"1", "6", "0">>

t1_234 == <<"1", ",", "2", "3", "4">>

t160_00005 == t160 \o <<".", "0", "0", "0", "0", "5">>

t160_0001 == t160 \o <<".", "0", "0", "0", "1">>

t0_0001 == <<"0", ".", "0", "0", "0", "1">>

t0_00009 == <<"0", ".", "0", "0", "0", "0", "9">>

t0_001 == <<"0", ".", "0", "0", "1">>

\* 0.0000000000000001 = 1e-16, below f64::EPSILON
tTiny == <<"0", ".">> \o [k \in 1..15 |-> "0"] \o <<"1">>

cNAME == <<"n", "a", "m", "e">>

BatchRows == {
    cTEST \o t0 \o Comma \o t2,
    cTEST \o <<"1">> \o Comma \o t42,
    cASSUMPTIONS_TEST \o t0 \o Comma \o t3,
    Quote \o cTEST \o <<"1">> \o Quote \o Comma \o Quote \o t1_234 \o Quote,
    cTEST \o t2 \o Comma \o t7,
    cTEST \o t0 \o Comma \o cNAME }

SheetRows == {
    cTEST_RESULT \o Comma \o t160,
    cRESULT \o Comma \o t150,
    t160_00005 \o Comma \o cRESULT \o Comma \o t150,
    Quote \o cTEST_RESULT \o Quote \o Comma \o Quote \o t1_234 \o Quote,
    cNAME \o Comma \o t160_0001,
    t0_0001,
    cNAME \o Comma \o <<" ">> \o t0_00009,
    t0_001,
    cTEST_RESULT \o Comma \o tTiny,
    ReadError }

\* the greatest number of lines of an exported file
MaxLines == 2

\* the greatest count handed to parse_batch_csv
MaxCount == 2

RECURSIVE SeqsUpTo(_, _)
\* the sequences over S of length at most n
SeqsUpTo(S, n) ==
    IF n = 0 THEN {<<>>}
    ELSE LET shorter == SeqsUpTo(S, n - 1)
         IN  shorter \cup {Append(q, x) : q \in shorter, x \in S}

\* what may be found at the path handed to parse_batch_csv
BatchFiles == {NoFile} \cup {File(ls) : ls \in SeqsUpTo(BatchRows \cup {ReadError}, MaxLines)}

\* what may be found at the path handed to find_result_in_csv
SheetFiles == {NoFile} \cup {File(ls) : ls \in SeqsUpTo(SheetRows, MaxLines)}

Expecteds == {Zero, FromInt(160), FromInt(1234)}

NotRun == [done |-> FALSE, res |-> <<>>]

Done(res) == [done |-> TRUE, res |-> res]

(***************************************************************************)
(* Case extraction (types.rs)                                              *)
(*                                                                         *)
(* An Option is a sequence of length at most one.  A HashMap is a function *)
(* on its keys; the order in which it is iterated is not fixed by the code *)
(* and is given to the extractors as iter.                                 *)
(***************************************************************************)
Nothing == <<>>

Some(x) == <<x>>

IsSome(o) == o # <<>>

ScalarGroup(scalars) == [kind |-> "ScalarGroup", scalars |-> scalars, columns |-> <<>>]

Table(columns) == [kind |-> "Table", scalars |-> <<>>, columns |-> columns]

\* TableColumn::Numbers
Numbers(nums) == [kind |-> "Numbers", nums |-> nums, strs |-> <<>>, formula |-> <<>>]

\* TableColumn::Strings
Strings(strs) == [kind |-> "Strings", nums |-> <<>>, strs |-> strs, formula |-> <<>>]

\* TableColumn::Formula
Formula(f) == [kind |-> "Formula", nums |-> <<>>, strs |-> <<>>, formula |-> f]

cSCENARIOS == <<"s", "c", "e", "n", "a", "r", "i", "o", "s">>

\* section_name.starts_with('_'): the keyword left out
IsReservedByPrefixOnly(section_name) == section_name # <<>> /\ Head(section_name) = "_"

\* section_name.starts_with('_') || section_name == "scenarios"
IsReserved(section_name) ==
    (section_name # <<>> /\ Head(section_name) = "_") \/ section_name = cSCENARIOS

\* format!("{name}"): the section left out
UnqualifiedName(section_name, name) == name

\* format!("{section_name}.{name}")
QualifiedName(section_name, name) == section_name \o <<".">> \o name

RECURSIVE TestCasesOfGroupKeepingSkipped(_, _, _, _, _)
\* the inner loop of extract_test_cases without its `continue` on a skip reason
TestCasesOfGroupKeepingSkipped(spec, source_file, section_name, scalars, order) ==
    IF order = <<>> THEN <<>>
    ELSE LET name   == Head(order)
             scalar == scalars[name]
             rest   == TestCasesOfGroupKeepingSkipped(spec, source_file, section_name,
                                                      scalars, Tail(order))
         IN  IF IsSome(scalar.formula) /\ IsSome(scalar.expected)
             THEN <<[name          |-> section_name \o <<".">> \o name,
                     formula       |-> scalar.formula[1],
                     expected      |-> scalar.expected[1],
                     source_file   |-> source_file,
                     forge_version |-> spec.forge_version]>> \o rest
             ELSE rest

RECURSIVE TestCasesOfGroup(_, _, _, _, _)
\* the inner loop of extract_test_cases over the entries of one ScalarGroup
TestCasesOfGroup(spec, source_file, section_name, scalars, order) ==
    IF order = <<>> THEN <<>>
    ELSE LET name   == Head(order)
             scalar == scalars[name]
             rest   == TestCasesOfGroup(spec, source_file, section_name, scalars, Tail(order))
         IN  IF IsSome(scalar.skip) THEN rest
             ELSE IF IsSome(scalar.formula) /\ IsSome(scalar.expected)
             THEN <<[name          |-> QualifiedName(section_name, name),
                     formula       |-> scalar.formula[1],
                     expected      |-> scalar.expected[1],
                     source_file   |-> source_file,
                     forge_version |-> spec.forge_version]>> \o rest
             ELSE rest

RECURSIVE TestCasesOfSections(_, _, _, _)
TestCasesOfSections(spec, source_file, iter, secs) ==
    IF secs = <<>> THEN <<>>
    ELSE LET section_name == Head(secs)
             section      == spec.sections[section_name]
             rest         == TestCasesOfSections(spec, source_file, iter, Tail(secs))
         IN  IF IsReserved(section_name) THEN rest
             ELSE IF section.kind = "ScalarGroup"
             THEN TestCasesOfGroup(spec, source_file, section_name, section.scalars,
                                   iter.ents[section_name]) \o rest
             ELSE rest

\* types.rs extract_test_cases
extract_test_cases(spec, source_file, iter) ==
    TestCasesOfSections(spec, source_file, iter, iter.secs)

RECURSIVE SkipCasesOfGroupListingDropped(_, _, _)
\* the inner loop of extract_skip_cases, listing an entry that cannot run as skipped
SkipCasesOfGroupListingDropped(section_name, scalars, order) ==
    IF order = <<>> THEN <<>>
    ELSE LET name   == Head(order)
             scalar == scalars[name]
             rest   == SkipCasesOfGroupListingDropped(section_name, scalars, Tail(order))
         IN  IF IsSome(scalar.skip)
             THEN <<[name   |-> QualifiedName(section_name, name),
                     reason |-> scalar.skip[1]]>> \o rest
             ELSE IF ~(IsSome(scalar.formula) /\ IsSome(scalar.expected))
             THEN <<[name   |-> QualifiedName(section_name, name),
                     reason |-> "incomplete"]>> \o rest
             ELSE rest

RECURSIVE SkipCasesOfGroup(_, _, _)
\* the inner loop of extract_skip_cases over the entries of one ScalarGroup
SkipCasesOfGroup(section_name, scalars, order) ==
    IF order = <<>> THEN <<>>
    ELSE LET name   == Head(order)
             scalar == scalars[name]
             rest   == SkipCasesOfGroup(section_name, scalars, Tail(order))
         IN  IF IsSome(scalar.skip)
             THEN <<[name   |-> QualifiedName(section_name, name),
                     reason |-> scalar.skip[1]]>> \o rest
             ELSE rest

RECURSIVE SkipCasesOfSections(_, _, _)
SkipCasesOfSections(spec, iter, secs) ==
    IF secs = <<>> THEN <<>>
    ELSE LET section_name == Head(secs)
             section      == spec.sections[section_name]
             rest         == SkipCasesOfSections(spec, iter, Tail(secs))
         IN  IF IsReserved(section_name) THEN rest
             ELSE IF section.kind = "ScalarGroup"
             THEN SkipCasesOfGroup(section_name, section.scalars,
                                   iter.ents[section_name]) \o rest
             ELSE rest

\* types.rs extract_skip_cases
extract_skip_cases(spec, iter) == SkipCasesOfSections(spec, iter, iter.secs)

(***************************************************************************)
(* The specification documents drawn as input                              *)
(***************************************************************************)
cA == <<"a">>

cA_B == <<"a", ".", "b">>

cC == <<"c">>

cB_C == <<"b", ".", "c">>

cMETA == <<"_", "m">>

cDATA == <<"d">>

\* the <<section, entry>> keys a document may hold
EntryKeys == {<<cA, cC>>, <<cA, cB_C>>, <<cA_B, cC>>, <<cMETA, cC>>, <<cSCENARIOS, cC>>}

\* the greatest number of scalar entries of a document
MaxEntries == 2

Scalars ==
    [value    : {Nothing},
     formula  : {Nothing, Some("=1+1")},
     expected : {Nothing, Some(FromInt(2))},
     skip     : {Nothing, Some("not supported")}]

\* the document whose scalar entries are given by e, a function on
\* <<section, entry>> pairs, with a Table section when table holds
SpecOf(e, table) ==
    LET groups == {p[1] : p \in DOMAIN e}
        group(g) == ScalarGroup([n \in {p[2] : p \in {q \in DOMAIN e : q[1] = g}}
                                   |-> e[<<g, n>>]])
        tables == IF table THEN {cDATA} ELSE {}
    IN  [forge_version |-> "1.0.0",
         sections |-> [g \in groups \cup tables |->
                         IF g \in groups THEN group(g)
                         ELSE Table([col \in {<<"v">>} |-> Numbers(<<FromInt(10), FromInt(50)>>)])]]

Specs ==
    UNION {{SpecOf(e, table) : e \in [P -> Scalars], table \in BOOLEAN}
           : P \in {Q \in SUBSET EntryKeys : Cardinality(Q) <= MaxEntries}}

\* the sequences that list every element of S once
Orders(S) == {q \in [1..Cardinality(S) -> S] : \A x \in S : \E k \in DOMAIN q : q[k] = x}

EntriesOf(section) == IF section.kind = "ScalarGroup" THEN DOMAIN section.scalars ELSE {}

\* the orders in which the maps of spec can be iterated
Iters(spec) ==
    [secs : Orders(DOMAIN spec.sections),
     ents : {f \in [DOMAIN spec.sections -> UNION {Orders(EntriesOf(spec.sections[g]))
                                                   : g \in DOMAIN spec.sections}]
             : \A g \in DOMAIN spec.sections : f[g] \in Orders(EntriesOf(spec.sections[g]))}]

(***************************************************************************)
(* Table data (types.rs): extract_table_data_yaml, as lines of text        *)
(***************************************************************************)
RECURSIVE FormatNat(_)
\* the decimal digits of a natural number
FormatNat(n) ==
    IF n < 10 THEN <<DigitChars[n + 1]>>
    ELSE FormatNat(n \div 10) \o <<DigitChars[(n % 10) + 1]>>

RECURSIVE Padded(_, _)
\* the last w decimal digits of n, leading zeros kept
Padded(n, w) ==
    IF w = 0 THEN <<>> ELSE Padded(n \div 10, w - 1) \o <<DigitChars[(n % 10) + 1]>>

\* f64::to_string: the sign, the integer digits and, when there is a
\* fraction, a point and the fraction's digits without trailing zeros
FormatF64(n) ==
    LET fraction == TrimEnd(Padded(n.c, 8) \o Padded(n.f, 9), {"0"})
    IN  (IF n.neg THEN <<"-">> ELSE <<>>)
        \o FormatNat(n.i)
        \o (IF fraction = <<>> THEN <<>> ELSE <<".">> \o fraction)

RECURSIVE Join(_, _)
\* [String]::join(sep)
Join(items, sep) ==
    IF items = <<>> THEN <<>>
    ELSE IF Len(items) = 1 THEN items[1]
    ELSE items[1] \o sep \o Join(Tail(items), sep)

\* format!("\"{s}\"")
Quoted(str) == <<"\"">> \o str \o <<"\"">>

\* the line written for one column
ColumnLine(col_name, col_data) ==
    <<" ", " ">> \o col_name \o <<":", " ">>
    \o (IF col_data.kind = "Numbers"
        THEN <<"[">> \o Join([k \in DOMAIN col_data.nums |-> FormatF64(col_data.nums[k])],
                             <<",", " ">>) \o <<"]">>
        ELSE IF col_data.kind = "Strings"
        THEN <<"[">> \o Join([k \in DOMAIN col_data.strs |-> Quoted(col_data.strs[k])],
                             <<",", " ">>) \o <<"]">>
        ELSE Quoted(col_data.formula))

cASSUMPTIONS == <<"a", "s", "s", "u", "m", "p", "t", "i", "o", "n", "s">>

RECURSIVE TableLinesOfSections(_, _, _)
\* the loop of extract_table_data_yaml over the sections from secs on
TableLinesOfSections(spec, iter, secs) ==
    IF secs = <<>> THEN <<>>
    ELSE LET section_name == Head(secs)
             section      == spec.sections[section_name]
             rest         == TableLinesOfSections(spec, iter, Tail(secs))
         IN  IF IsReserved(section_name) \/ section_name = cASSUMPTIONS THEN rest
             ELSE IF section.kind = "Table"
             THEN <<section_name \o <<":">>>>
                  \o [k \in DOMAIN iter.cols[section_name] |->
                        ColumnLine(iter.cols[section_name][k],
                                   section.columns[iter.cols[section_name][k]])]
                  \o rest
             ELSE rest

\* types.rs extract_table_data_yaml: the lines of the string returned
extract_table_data_yaml(spec, iter) == TableLinesOfSections(spec, iter, iter.secs)

ColumnsOf(section) == IF section.kind = "Table" THEN DOMAIN section.columns ELSE {}

\* the orders in which the sections and the columns of spec can be iterated
TableIters(spec) ==
    [secs : Orders(DOMAIN spec.sections),
     cols : {f \in [DOMAIN spec.sections -> UNION {Orders(ColumnsOf(spec.sections[g]))
                                                   : g \in DOMAIN spec.sections}]
             : \A g \in DOMAIN spec.sections : f[g] \in Orders(ColumnsOf(spec.sections[g]))}]

(***************************************************************************)
(* The reader of the rendered fragment: YAML block mappings of one level   *)
(* whose values are flow sequences or scalars, read into TableColumn the   *)
(* way the untagged enum is (Numbers, then Strings, then Formula).         *)
(***************************************************************************)
ReadFailed == [ok |-> FALSE, value |-> <<>>, next |-> 0]

Read(value, next) == [ok |-> TRUE, value |-> value, next |-> next]

RECURSIVE SkipSpaces(_, _)
\* the first position from k on that holds no space
SkipSpaces(s, k) == IF k <= Len(s) /\ s[k] = " " THEN SkipSpaces(s, k + 1) ELSE k

\* the escapes of a double-quoted scalar that stand for the character itself
LiteralEscapes == {"\"", "\\", "/"}

\* the escapes that stand for a control or a space character
ControlEscapes == {"0", "a", "b", "t", "n", "v", "f", "r", "e", " ", "N", "_", "L", "P"}

RECURSIVE QuotedFrom(_, _, _)
\* a double-quoted scalar whose opening quote is before position k:
\* it ends at the first quote that no backslash escapes
QuotedFrom(s, k, acc) ==
    IF k > Len(s) THEN ReadFailed
    ELSE IF s[k] = "\"" THEN Read(acc, k + 1)
    ELSE IF s[k] = "\\"
    THEN IF k + 1 > Len(s) THEN ReadFailed
         ELSE IF s[k + 1] \in LiteralEscapes THEN QuotedFrom(s, k + 2, Append(acc, s[k + 1]))
         ELSE IF s[k + 1] \in ControlEscapes
         THEN QuotedFrom(s, k + 2, Append(acc, "\\" \o s[k + 1]))
         ELSE ReadFailed
    ELSE QuotedFrom(s, k + 1, Append(acc, s[k]))

RECURSIVE PlainEnd(_, _)
\* the end of a plain scalar in a flow sequence: the next , or ]
PlainEnd(s, k) == IF k > Len(s) \/ s[k] \in {",", "]"} THEN k ELSE PlainEnd(s, k + 1)

RECURSIVE FlowFrom(_, _, _)
RECURSIVE FlowAfterItem(_, _, _)
\* the items of a flow sequence from position k on, k at the start of an item
FlowFrom(s, k, acc) ==
    LET j == SkipSpaces(s, k)
    IN  IF j > Len(s) THEN ReadFailed
        ELSE IF s[j] = "]" THEN Read(acc, j + 1)
        ELSE IF s[j] = "\""
        THEN LET q == QuotedFrom(s, j + 1, <<>>)
             IN  IF q.ok
                 THEN FlowAfterItem(s, q.next, Append(acc, [quoted |-> TRUE, text |-> q.value]))
                 ELSE ReadFailed
        ELSE LET e    == PlainEnd(s, j)
                 text == TrimEnd(SubSeq(s, j, e - 1), {" "})
             IN  IF text = <<>> THEN ReadFailed
                 ELSE FlowAfterItem(s, e, Append(acc, [quoted |-> FALSE, text |-> text]))

\* what follows an item: a comma and the next item, or the closing bracket
FlowAfterItem(s, k, acc) ==
    LET j == SkipSpaces(s, k)
    IN  IF j > Len(s) THEN ReadFailed
        ELSE IF s[j] = "," THEN FlowFrom(s, j + 1, acc)
        ELSE IF s[j] = "]" THEN Read(acc, j + 1)
        ELSE ReadFailed

IsNumberItem(item) == ~item.quoted /\ ParseF64(item.text).ok

\* a sequence read as TableColumn: Vec<f64>, else Vec<String>, else no variant
ColumnOfItems(items) ==
    IF \A k \in DOMAIN items : IsNumberItem(items[k])
    THEN Read(Numbers([k \in DOMAIN items |-> ParseF64(items[k].text).v]), 0)
    ELSE IF \A k \in DOMAIN items : ~IsNumberItem(items[k])
    THEN Read(Strings([k \in DOMAIN items |-> items[k].text]), 0)
    ELSE ReadFailed

\* the value of a column read from the text after "key: "
ColumnOfText(text) ==
    IF text = <<>> THEN ReadFailed
    ELSE IF text[1] = "["
    THEN LET flow == FlowFrom(text, 2, <<>>)
         IN  IF flow.ok /\ SkipSpaces(text, flow.next) > Len(text)
             THEN ColumnOfItems(flow.value) ELSE ReadFailed
    ELSE IF text[1] = "\""
    THEN LET q == QuotedFrom(text, 2, <<>>)
         IN  IF q.ok /\ SkipSpaces(text, q.next) > Len(text)
             THEN Read(Formula(q.value), 0) ELSE ReadFailed
    ELSE IF ParseF64(text).ok THEN ReadFailed
    ELSE Read(Formula(text), 0)

RECURSIVE KeyEnd(_, _)
\* the position of the ": " that ends the key of a line, 0 when there is none
KeyEnd(s, k) ==
    IF k >= Len(s) THEN 0
    ELSE IF s[k] = ":" /\ s[k + 1] = " " THEN k
    ELSE KeyEnd(s, k + 1)

\* the map with value bound to key
Bind(map, key, value) ==
    [n \in DOMAIN map \cup {key} |-> IF n = key THEN value ELSE map[n]]

RECURSIVE ReadLinesFrom(_, _, _)
\* the lines read one after another: name: opens a section, an indented
\* key: value line adds a column to the section that is open
ReadLinesFrom(lines, open, acc) ==
    IF lines = <<>> THEN [ok |-> TRUE, sections |-> acc]
    ELSE LET line == Head(lines)
         IN  IF IsPrefix(<<" ", " ">>, line)
             THEN LET at  == KeyEnd(line, 3)
                      key == SubSeq(line, 3, at - 1)
                      col == ColumnOfText(SubSeq(line, at + 2, Len(line)))
                  IN  IF open = <<>> \/ at = 0 \/ key = <<>> \/ ~col.ok
                         \/ key \in DOMAIN acc[open[1]]
                      THEN [ok |-> FALSE, sections |-> <<>>]
                      ELSE ReadLinesFrom(Tail(lines), open,
                               [acc EXCEPT ![open[1]] = Bind(@, key, col.value)])
             ELSE LET name == SubSeq(line, 1, Len(line) - 1)
                  IN  IF line = <<>> \/ line[Len(line)] # ":" \/ name = <<>>
                         \/ name \in DOMAIN acc
                      THEN [ok |-> FALSE, sections |-> <<>>]
                      ELSE ReadLinesFrom(Tail(lines), <<name>>, Bind(acc, name, <<>>))

\* the fragment read as a map of Table sections; a section without a column
\* has a null value, which is no Table
ReadTables(lines) ==
    LET read == ReadLinesFrom(lines, <<>>, <<>>)
    IN  IF read.ok /\ \A g \in DOMAIN read.sections : DOMAIN read.sections[g] # {}
        THEN read ELSE [ok |-> FALSE, sections |-> <<>>]

RunnableScalar ==
    [value |-> Nothing, formula |-> Some("=1+1"), expected |-> Some(FromInt(2)),
     skip |-> Nothing]

\* the column values drawn as input
TableNumbers == {FromInt(10), Num(TRUE, 2, 50000000, 0)}

TableStrings == {<<"1">>, <<"x", ",", "y">>, <<"a", "\"", "b">>}

TableFormulas == {<<"=", "a", "+", "1">>, <<"=", "a", "=", "\"", "x", "\"">>}

\* the greatest number of values of a column
MaxItems == 2

\* the columns a parsed Table can hold: an empty sequence parses as Numbers
TableColumns ==
    {Numbers(q) : q \in SeqsUpTo(TableNumbers, MaxItems)}
        \cup {Strings(q) : q \in SeqsUpTo(TableStrings, MaxItems) \ {<<>>}}
        \cup {Formula(f) : f \in TableFormulas}

ColumnNames == {<<"v">>, <<"w">>}

\* the documents drawn as input: a ScalarGroup section a and one Table
\* section of one or two columns
TableSpecs ==
    {[forge_version |-> "1.0.0",
      sections |-> [g \in {cA, name} |->
                      IF g = cA THEN ScalarGroup([n \in {cC} |-> RunnableScalar])
                      ELSE Table(columns)]]
       : name \in {cDATA, cASSUMPTIONS, cMETA},
         columns \in UNION {[C -> TableColumns] : C \in (SUBSET ColumnNames) \ {{}}}}

(***************************************************************************)
(* Loading (runner.rs): the tests directory as fs::read_dir lists it       *)
(***************************************************************************)
\* a file with the extension yaml: whether fs::read_to_string succeeds, and
\* what serde_yaml_ng::from_str makes of the content (Nothing: a parse error)
YamlFile(name, readable, parsed) ==
    [kind |-> "yaml", name |-> name, readable |-> readable, parsed |-> parsed,
     entries |-> <<>>]

\* a file with another extension
OtherFile(name) ==
    [kind |-> "other", name |-> name, readable |-> TRUE, parsed |-> Nothing, entries |-> <<>>]

\* a directory: whether fs::read_dir succeeds, and the entries it lists in order
Dir(name, readable, entries) ==
    [kind |-> "dir", name |-> name, readable |-> readable, parsed |-> Nothing,
     entries |-> entries]

\* a tests directory that does not exist
NoDir == [kind |-> "none", name |-> "", readable |-> FALSE, parsed |-> Nothing,
          entries |-> <<>>]

LoadOk(cases, skips) == [ok |-> TRUE, cases |-> cases, skips |-> skips]

\* the Err of anyhow::Result: the accumulated lists are not returned
LoadErr == [ok |-> FALSE, cases |-> <<>>, skips |-> <<>>]

\* the order in which the maps of a file's document are iterated
IterOf(spec) == CHOOSE iter \in Iters(spec) : TRUE

\* a load in which a file that does not parse aborts, like one that cannot be read
LoadParsedStrict(path, e, acc) ==
    IF ~e.readable \/ ~IsSome(e.parsed) THEN LoadErr
    ELSE LoadOk(acc.cases \o extract_test_cases(e.parsed[1], Some(path), IterOf(e.parsed[1])),
                acc.skips \o extract_skip_cases(e.parsed[1], IterOf(e.parsed[1])))

\* the yaml arm of load_test_cases_recursive: read, parse, extract and extend
LoadParsed(path, e, acc) ==
    IF ~e.readable THEN LoadErr
    ELSE IF ~IsSome(e.parsed) THEN acc
    ELSE LoadOk(acc.cases \o extract_test_cases(e.parsed[1], Some(path), IterOf(e.parsed[1])),
                acc.skips \o extract_skip_cases(e.parsed[1], IterOf(e.parsed[1])))

RECURSIVE LoadEntries(_, _, _)
\* the loop of load_test_cases_recursive over the entries of the directory at dir
LoadEntries(dir, entries, acc) ==
    IF entries = <<>> THEN acc
    ELSE LET e    == Head(entries)
             path == dir \o "/" \o e.name
             step == IF e.kind = "dir"
                     THEN IF e.readable THEN LoadEntries(path, e.entries, acc) ELSE LoadErr
                     ELSE IF e.kind = "yaml" THEN LoadParsed(path, e, acc)
                     ELSE acc
         IN  IF step.ok THEN LoadEntries(dir, Tail(entries), step) ELSE LoadErr

\* TestRunner::load_test_cases
load_test_cases(tests_dir) ==
    IF tests_dir.kind # "dir" THEN LoadErr
    ELSE IF ~tests_dir.readable THEN LoadErr
    ELSE LoadEntries(tests_dir.name, tests_dir.entries, LoadOk(<<>>, <<>>))

\* the documents of the files drawn as input
SkippedScalar ==
    [value |-> Nothing, formula |-> Nothing, expected |-> Nothing,
     skip |-> Some("not supported")]

DocA == SpecOf([p \in {<<cA, cC>>, <<cA, cB_C>>} |->
                   IF p[2] = cC THEN RunnableScalar ELSE SkippedScalar], FALSE)

DocB == SpecOf([p \in {<<cA_B, cC>>} |-> RunnableScalar], FALSE)

\* the files a directory may hold
Files ==
    {YamlFile("a.yaml", TRUE, Some(DocA)), YamlFile("b.yaml", TRUE, Some(DocB)),
     YamlFile("m.yaml", TRUE, Nothing), YamlFile("u.yaml", FALSE, Nothing),
     OtherFile("n.txt")}

\* the greatest number of entries of a directory
MaxDirEntries == 2

RECURSIVE ListingsUpTo(_, _)
\* the listings of at most n entries of S: no two entries of a directory share a name
ListingsUpTo(S, n) ==
    IF n = 0 THEN {<<>>}
    ELSE LET shorter == ListingsUpTo(S, n - 1)
         IN  shorter \cup UNION {{Append(l, e) : e \in {x \in S : \A j \in DOMAIN l :
                                                                    l[j].name # x.name}}
                                   : l \in shorter}

\* the listings of a directory that holds entries of S
Listings(S) == ListingsUpTo(S, MaxDirEntries)

\* the tests directories drawn as input: files and one level of subdirectories
Trees ==
    {NoDir, Dir("tests", FALSE, <<>>)}
        \cup {Dir("tests", TRUE, l)
                : l \in Listings(Files \cup {Dir("sub", FALSE, <<>>)}
                                       \cup {Dir("sub", TRUE, f) : f \in Listings(Files)})}

(***************************************************************************)
(* TestResult (types.rs) and the engines (engine.rs)                       *)
(***************************************************************************)
\* TestResult::Pass; actual is always present
Pass(tc, actual) ==
    [status |-> "pass", name |-> tc.name, formula |-> tc.formula, expected |-> tc.expected,
     actual |-> Some(actual), error |-> Nothing, reason |-> ""]

\* a Fail that explains a mismatch with a message of its own
FailExplained(tc, actual, error) ==
    [status |-> "fail", name |-> tc.name, formula |-> tc.formula, expected |-> tc.expected,
     actual |-> actual, reason |-> "",
     error |-> IF error = Nothing THEN Some("Value mismatch") ELSE error]

\* TestResult::Fail
Fail(tc, actual, error) ==
    [status |-> "fail", name |-> tc.name, formula |-> tc.formula, expected |-> tc.expected,
     actual |-> actual, error |-> error, reason |-> ""]

\* TestResult::Skip
Skip(sc) ==
    [status |-> "skip", name |-> sc.name, formula |-> "", expected |-> Zero,
     actual |-> Nothing, error |-> Nothing, reason |-> sc.reason]

\* a temporary directory: live from tempfile::tempdir() until the TempDir is dropped
NoWs == [live |-> FALSE, files |-> <<>>]

FreshWs == [live |-> TRUE, files |-> <<>>]

\* the directory with content written at name
Put(files, name, content) ==
    [n \in DOMAIN files \cup {name} |-> IF n = name THEN content ELSE files[n]]

\* what is found at name
Lookup(files, name) == IF name \in DOMAIN files THEN files[name] ELSE NoFile

\* output_dir.join(format!("{base_name}_{i}.csv"))
SheetPath(base_name, i) == base_name \o "_" \o ToString(i) \o ".csv"

RECURSIVE WriteSheets(_, _, _, _)
\* ssconvert -S with the pattern {base_name}_%n.csv: sheet k goes to its own file
WriteSheets(files, base_name, sheets, k) ==
    IF k >= Len(sheets) THEN files
    ELSE WriteSheets(Put(files, SheetPath(base_name, k), File(sheets[k + 1])),
                     base_name, sheets, k + 1)

\* GnumericEngine::xlsx_to_csv after a successful conversion: the path returned
xlsx_to_csv(base_name) == base_name \o "_"

\* the 10 of `for i in 0..10` in xlsx_to_csv_all_sheets
SheetProbeLimit == 10

\* a probe that looks at every index below the limit and keeps what exists
ProbeSheetsPastGaps(files, base_name, i) ==
    SelectSeq([k \in 1..(SheetProbeLimit - i) |-> SheetPath(base_name, i + k - 1)],
              LAMBDA path : path \in DOMAIN files)

RECURSIVE ProbeSheets(_, _, _)
\* the loop of xlsx_to_csv_all_sheets from index i on
ProbeSheets(files, base_name, i) ==
    IF i < SheetProbeLimit /\ SheetPath(base_name, i) \in DOMAIN files
    THEN <<SheetPath(base_name, i)>> \o ProbeSheets(files, base_name, i + 1)
    ELSE <<>>

\* GnumericEngine::xlsx_to_csv_all_sheets after a successful conversion
xlsx_to_csv_all_sheets(files, base_name) ==
    LET found == ProbeSheets(files, base_name, 0)
    IN  IF found = <<>> THEN [ok |-> FALSE, paths |-> <<>>, err |-> "No CSV files generated"]
        ELSE [ok |-> TRUE, paths |-> found, err |-> None]

\* the greatest sheet index a file of the output directory may carry
MaxSheetIndex == 11

\* the output directory of run_test holding sheet files at the indices of S
DirWithSheets(S) ==
    [n \in {"test.yaml", "test.xlsx"} \cup {SheetPath("test", i) : i \in S} |-> File(<<>>)]

\* the output directories drawn as input: any set of sheet indices
OutputDirs == {DirWithSheets(S) : S \in SUBSET (0..MaxSheetIndex)}

\* a search that lets the last sheet yielding a value decide
SearchSheetsLastFirst(files, paths, tc) ==
    LET found(i) == find_result_in_csv(Lookup(files, paths[i]), tc.expected)
        hits == {i \in DOMAIN paths : found(i).ok}
    IN  IF hits = {}
        THEN Fail(tc, Nothing, Some("Could not find result in any CSV sheet"))
        ELSE LET last == CHOOSE i \in hits : \A j \in hits : j <= i
             IN  IF Judged(found(last).v, tc.expected) THEN Pass(tc, found(last).v)
                 ELSE Fail(tc, Some(found(last).v), Nothing)

RECURSIVE SearchSheets(_, _, _)
\* the loop of run_test over csv_files: the result decided by the first sheet
\* that yields a value
SearchSheets(files, paths, tc) ==
    IF paths = <<>>
    THEN Fail(tc, Nothing, Some("Could not find result in any CSV sheet"))
    ELSE LET found == find_result_in_csv(Lookup(files, Head(paths)), tc.expected)
         IN  IF found.ok
             THEN IF Judged(found.v, tc.expected) THEN Pass(tc, found.v)
                  ELSE Fail(tc, Some(found.v), Nothing)
             ELSE SearchSheets(files, Tail(paths), tc)

\* the loop of run_batch over the test cases, given what parse_batch_csv returned
BatchJudge(cases, csv_results) ==
    [k \in 1..Len(cases) |->
        IF k > Len(csv_results) THEN Fail(cases[k], Nothing, Some("Missing result in CSV"))
        ELSE IF csv_results[k].ok
        THEN IF Judged(csv_results[k].v, cases[k].expected) THEN Pass(cases[k], csv_results[k].v)
             ELSE Fail(cases[k], Some(csv_results[k].v), Nothing)
        ELSE Fail(cases[k], Nothing, Some(csv_results[k].err))]

\* a batch-wide failure whose message carries the position of the case it is recorded for
FailAllNumbered(cases, msg) ==
    [k \in 1..Len(cases) |-> Fail(cases[k], Nothing, Some(msg \o " (case " \o ToString(k) \o ")"))]

\* the `for tc in &self.test_cases { results.push(Fail { .. error }) }` of run_batch
FailAll(cases, msg) == [k \in 1..Len(cases) |-> Fail(cases[k], Nothing, Some(msg))]

\* a list of Skip results that drops the reasons
SkipResultsUnexplained(skips) ==
    [k \in 1..Len(skips) |-> [Skip(skips[k]) EXCEPT !.reason = ""]]

\* the Skip result of every skip case, in skip_cases order
SkipResults(skips) == [k \in 1..Len(skips) |-> Skip(skips[k])]

(***************************************************************************)
(* The runner's inputs and its environment                                 *)
(***************************************************************************)
Modes == {"run_all", "run_all_streaming", "run_batch"}

\* the k-th test case loaded: a.c<k>, alternately =80+80 expecting 160 and
\* =0.1+0.2-0.3 expecting 0
CaseAt(k) ==
    [name |-> QualifiedName(cA, cC \o <<DigitChars[k + 1]>>),
     formula |-> IF k % 2 = 1 THEN "=80+80" ELSE "=0.1+0.2-0.3",
     expected |-> IF k % 2 = 1 THEN FromInt(160) ELSE Zero,
     source_file |-> Nothing, forge_version |-> "1.0.0"]

\* the lists of test cases a load may leave, of n cases at most
LoadedCases(n) == {[k \in 1..m |-> CaseAt(k)] : m \in 0..n}

SkipPool == {[name |-> QualifiedName(cA_B, cC), reason |-> "not supported"]}

\* the greatest number of loaded test cases
MaxCases == 2

\* the greatest number of loaded skip cases
MaxSkips == 1

\* the text the oracle may export as the value of a formula
OracleValues == {t160, t0, tTiny}

\* one sheet holding the row test_result,<value>
LabelledSheet(value) == <<cTEST_RESULT \o Comma \o value>>

\* one sheet holding a row test_<k-1>,<values[k]> for every k
BatchSheet(values) ==
    [k \in 1..Len(values) |-> cTEST \o <<DigitChars[k]>> \o Comma \o values[k]]

\* what the oracle may export for the document of one case: sheets in order
TestExports ==
    {<<>>}
    \cup {<<LabelledSheet(v)>> : v \in OracleValues}
    \cup {<<<<cNAME \o Comma \o t160_00005>>>>,
          <<<<cNAME>>, LabelledSheet(t160)>>,
          <<<<cNAME \o Comma \o t160_00005>>, LabelledSheet(t160)>>,
          [k \in 1..SheetProbeLimit |-> <<cNAME>>] \o <<LabelledSheet(t160)>>}

\* what the oracle may export for the batch document of n cases
BatchExports(n) == {<<>>} \cup {<<BatchSheet(vs)>> : vs \in [1..n -> OracleValues]}

\* one interaction with the environment, as logged
Event(step, outcome, sheets) == [step |-> step, outcome |-> outcome, sheets |-> sheets]

ProcessOutcomes == {"ok", "spawn_err", "exit_nonzero"}

(***************************************************************************)
(* Initial states                                                          *)
(***************************************************************************)
LoadIdle ==
    /\ tree_in = NoDir
    /\ load_out = NotRun

TableIdle ==
    /\ table_in = [forge_version |-> "", sections |-> <<>>]
    /\ table_out = NotRun

ProbeIdle ==
    /\ probe_in = <<>>
    /\ probe_out = NotRun

ExtractIdle ==
    /\ doc = [forge_version |-> "", sections |-> <<>>]
    /\ ext_cases = NotRun
    /\ ext_skips = NotRun
    /\ LoadIdle
    /\ TableIdle
    /\ ProbeIdle

CsvIdle ==
    /\ csv_in = NoFile
    /\ exp_in = Zero
    /\ count_in = 0
    /\ batch_out = NotRun
    /\ find_out = NotRun

RunnerIdle ==
    /\ mode = "none"
    /\ pc = "idle"
    /\ results = <<>>
    /\ cur = Nothing
    /\ observed = <<>>
    /\ ws = NoWs
    /\ csv_files = <<>>
    /\ calls = <<>>
    /\ envlog = [m \in Modes |-> <<>>]
    /\ returned = [m \in Modes |-> Nothing]

\* a runner as TestRunner::new leaves it
Init ==
    /\ ExtractIdle
    /\ CsvIdle
    /\ test_cases \in LoadedCases(MaxCases)
    /\ skip_cases \in SeqsUpTo(SkipPool, MaxSkips)
    /\ RunnerIdle

\* a parsed document, before extraction
InitExtract ==
    /\ doc \in Specs
    /\ ext_cases = NotRun
    /\ ext_skips = NotRun
    /\ LoadIdle
    /\ TableIdle
    /\ ProbeIdle
    /\ CsvIdle
    /\ test_cases = <<>>
    /\ skip_cases = <<>>
    /\ RunnerIdle

\* a parsed document with a Table section, before rendering
InitTable ==
    /\ doc = [forge_version |-> "", sections |-> <<>>]
    /\ ext_cases = NotRun
    /\ ext_skips = NotRun
    /\ LoadIdle
    /\ table_in \in TableSpecs
    /\ table_out = NotRun
    /\ ProbeIdle
    /\ CsvIdle
    /\ test_cases = <<>>
    /\ skip_cases = <<>>
    /\ RunnerIdle

\* a tests directory, before loading
InitLoad ==
    /\ doc = [forge_version |-> "", sections |-> <<>>]
    /\ ext_cases = NotRun
    /\ ext_skips = NotRun
    /\ tree_in \in Trees
    /\ load_out = NotRun
    /\ TableIdle
    /\ ProbeIdle
    /\ CsvIdle
    /\ test_cases = <<>>
    /\ skip_cases = <<>>
    /\ RunnerIdle

\* an output directory after a successful conversion, before probing
InitProbe ==
    /\ doc = [forge_version |-> "", sections |-> <<>>]
    /\ ext_cases = NotRun
    /\ ext_skips = NotRun
    /\ LoadIdle
    /\ TableIdle
    /\ probe_in \in OutputDirs
    /\ probe_out = NotRun
    /\ CsvIdle
    /\ test_cases = <<>>
    /\ skip_cases = <<>>
    /\ RunnerIdle

\* an exported file, an expected value and a count, before extraction
InitCsv ==
    /\ ExtractIdle
    /\ \/ csv_in \in BatchFiles /\ count_in \in 0..MaxCount /\ exp_in = Zero
       \/ csv_in \in SheetFiles /\ exp_in \in Expecteds /\ count_in = 0
    /\ batch_out = NotRun
    /\ find_out = NotRun
    /\ test_cases = <<>>
    /\ skip_cases = <<>>
    /\ RunnerIdle

loadVars == <<tree_in, load_out>>

tableVars == <<table_in, table_out>>

probeVars == <<probe_in, probe_out>>

extractVars == <<doc, ext_cases, ext_skips, loadVars, tableVars, probeVars>>

csvVars == <<csv_in, exp_in, count_in, batch_out, find_out>>

runnerVars == <<test_cases, skip_cases, mode, pc, results, cur, observed, ws, csv_files,
                calls, envlog, returned>>

(***************************************************************************)
(* Extraction steps                                                        *)
(***************************************************************************)
\* load_test_cases_recursive, the Ok(spec) arm: both extractors on one document
ExtractCases ==
    /\ ~ext_cases.done
    /\ \E iter \in Iters(doc) :
          /\ ext_cases' = Done(extract_test_cases(doc, Nothing, iter))
          /\ ext_skips' = Done(extract_skip_cases(doc, iter))
    /\ UNCHANGED <<doc, loadVars, tableVars, probeVars, csvVars, runnerVars>>

ParseBatchCsv ==
    /\ ~batch_out.done
    /\ batch_out' = Done(parse_batch_csv(csv_in, count_in))
    /\ UNCHANGED <<csv_in, exp_in, count_in, find_out, extractVars, runnerVars>>

FindResultInCsv ==
    /\ ~find_out.done
    /\ find_out' = Done(find_result_in_csv(csv_in, exp_in))
    /\ UNCHANGED <<csv_in, exp_in, count_in, batch_out, extractVars, runnerVars>>

\* TestRunner::new: load_test_cases(&tests_dir)
LoadTestCases ==
    /\ ~load_out.done
    /\ load_out' = Done(load_test_cases(tree_in))
    /\ UNCHANGED <<tree_in, doc, ext_cases, ext_skips, tableVars, probeVars, csvVars,
                   runnerVars>>

\* run_test: extract_table_data_yaml(&spec), and the fragment read back
RenderTables ==
    /\ ~table_out.done
    /\ \E iter \in TableIters(table_in) :
          table_out' = Done([lines |-> extract_table_data_yaml(table_in, iter),
                             read  |-> ReadTables(extract_table_data_yaml(table_in, iter))])
    /\ UNCHANGED <<table_in, doc, ext_cases, ext_skips, loadVars, probeVars, csvVars,
                   runnerVars>>

\* run_test: self.engine.xlsx_to_csv_all_sheets on the directory as the
\* conversion left it
ProbeAllSheets ==
    /\ ~probe_out.done
    /\ probe_out' = Done(xlsx_to_csv_all_sheets(probe_in, "test"))
    /\ UNCHANGED <<probe_in, doc, ext_cases, ext_skips, loadVars, tableVars, csvVars,
                   runnerVars>>

NextProbe == ProbeAllSheets

\* xlsx_to_csv_all_sheets on one output directory
SpecProbe == InitProbe /\ [][NextProbe]_vars

NextTable == RenderTables

\* extract_table_data_yaml on one document
SpecTable == InitTable /\ [][NextTable]_vars

NextLoad == LoadTestCases

\* load_test_cases on one tests directory
SpecLoad == InitLoad /\ [][NextLoad]_vars

NextExtract == ExtractCases

NextCsv == ParseBatchCsv \/ FindResultInCsv

SpecExtract == InitExtract /\ [][NextExtract]_vars

SpecCsv == InitCsv /\ [][NextCsv]_vars

(***************************************************************************)
(* The execution strategies (runner.rs)                                    *)
(*                                                                         *)
(* pc is the place in the strategy: "idle" before a call; for run_test     *)
(* "tempdir", "write", "forge", "oracle", "search"; for run_batch the same *)
(* places prefixed b_; "skip", "observe", "push" in the loops of           *)
(* run_all_streaming and run_all; "return" when the list is complete and   *)
(* "done" once it has been returned.                                       *)
(***************************************************************************)
\* a loop that hands the first test case to run_test again and again
CaseIndexStuck == CHOOSE k \in DOMAIN test_cases : \A j \in DOMAIN test_cases : k <= j

\* the test case run_test is executing: results holds the skips and the cases before it
CaseIndex == Len(results) - Len(skip_cases) + 1

CurrentCase == test_cases[CaseIndex]

Logged(step, outcome, sheets) ==
    [envlog EXCEPT ![mode] = Append(@, Event(step, outcome, sheets))]

\* where the loop goes once res holds the results so far
NextPlace(m, res) ==
    IF m = "run_all_streaming" /\ Len(res) < Len(skip_cases) THEN "skip"
    ELSE IF Len(res) < Len(skip_cases) + Len(test_cases) THEN "tempdir"
    ELSE "return"

\* a run_all_streaming that pushes the result of run_test unobserved
AfterTestUnobserved == "push"

\* where run_test's result goes: to the observer first, in run_all_streaming
AfterTest == IF mode = "run_all_streaming" THEN "observe" ELSE "push"

\* run_all: the skip results, then run_test per case as the iterator is collected
BeginRunAll ==
    /\ mode' = "run_all"
    /\ results' = SkipResults(skip_cases)
    /\ pc' = NextPlace("run_all", SkipResults(skip_cases))
    /\ cur' = Nothing /\ observed' = <<>> /\ ws' = NoWs /\ csv_files' = <<>> /\ calls' = <<>>
    /\ envlog' = [envlog EXCEPT !["run_all"] = <<>>]
    /\ UNCHANGED <<test_cases, skip_cases, returned, extractVars, csvVars>>

\* run_all_streaming: an empty list, then the two loops
BeginRunAllStreaming ==
    /\ mode' = "run_all_streaming"
    /\ results' = <<>>
    /\ pc' = NextPlace("run_all_streaming", <<>>)
    /\ cur' = Nothing /\ observed' = <<>> /\ ws' = NoWs /\ csv_files' = <<>> /\ calls' = <<>>
    /\ envlog' = [envlog EXCEPT !["run_all_streaming"] = <<>>]
    /\ UNCHANGED <<test_cases, skip_cases, returned, extractVars, csvVars>>

\* a run_batch that builds and exports the document even when there is no test case
BatchStartAlways(cases) == "b_tempdir"

\* run_batch: `if self.test_cases.is_empty() { return results; }`
BatchStart(cases) == IF cases = <<>> THEN "return" ELSE "b_tempdir"

\* run_batch: the skip results, and the early return when there is no test case
BeginRunBatch ==
    /\ mode' = "run_batch"
    /\ results' = SkipResults(skip_cases)
    /\ pc' = BatchStart(test_cases)
    /\ cur' = Nothing /\ observed' = <<>> /\ ws' = NoWs /\ csv_files' = <<>> /\ calls' = <<>>
    /\ envlog' = [envlog EXCEPT !["run_batch"] = <<>>]
    /\ UNCHANGED <<test_cases, skip_cases, returned, extractVars, csvVars>>

StartRunAll == pc = "idle" /\ BeginRunAll

StartRunAllStreaming == pc = "idle" /\ BeginRunAllStreaming

StartRunBatch == pc = "idle" /\ BeginRunBatch

\* run_all_streaming, first loop: the Skip result of the next skip case
StreamSkip ==
    /\ pc = "skip"
    /\ cur' = Some(Skip(skip_cases[Len(results) + 1]))
    /\ pc' = "observe"
    /\ UNCHANGED <<test_cases, skip_cases, mode, results, observed, ws, csv_files, calls,
                   envlog, returned, extractVars, csvVars>>

\* run_all_streaming: on_result(&result)
Observe ==
    /\ pc = "observe"
    /\ observed' = Append(observed, cur[1])
    /\ pc' = "push"
    /\ UNCHANGED <<test_cases, skip_cases, mode, results, cur, ws, csv_files, calls,
                   envlog, returned, extractVars, csvVars>>

\* results.push(result), or the collect of run_all taking the next item
Push ==
    /\ pc = "push"
    /\ results' = Append(results, cur[1])
    /\ cur' = Nothing
    /\ pc' = NextPlace(mode, Append(results, cur[1]))
    /\ UNCHANGED <<test_cases, skip_cases, mode, observed, ws, csv_files, calls,
                   envlog, returned, extractVars, csvVars>>

\* a run_test whose temporary directory outlives the call
TestReturnsKeepingWorkspace(result) ==
    /\ cur' = Some(result)
    /\ UNCHANGED <<ws, csv_files>>
    /\ pc' = AfterTest

\* run_test returns result: the TempDir, if any, is dropped
TestReturns(result) ==
    /\ cur' = Some(result)
    /\ ws' = NoWs
    /\ csv_files' = <<>>
    /\ pc' = AfterTest

\* run_test: tempfile::tempdir()
TestTempDir ==
    /\ pc = "tempdir"
    /\ \E ok \in BOOLEAN :
          /\ envlog' = Logged("tempdir", IF ok THEN "ok" ELSE "err", <<>>)
          /\ IF ok
             THEN /\ ws' = FreshWs
                  /\ pc' = "write"
                  /\ UNCHANGED <<cur, csv_files>>
             ELSE TestReturns(Fail(CurrentCase, Nothing,
                                   Some("Failed to create temp dir: " \o "os error")))
    /\ UNCHANGED <<test_cases, skip_cases, mode, results, observed, calls, returned,
                   extractVars, csvVars>>

\* run_test: fs::write(&yaml_path, &yaml_content)
TestWriteYaml ==
    /\ pc = "write"
    /\ \E ok \in BOOLEAN :
          /\ envlog' = Logged("write", IF ok THEN "ok" ELSE "err", <<>>)
          /\ IF ok
             THEN /\ ws' = [ws EXCEPT !.files = Put(@, "test.yaml", File(<<>>))]
                  /\ pc' = "forge"
                  /\ UNCHANGED <<cur, csv_files>>
             ELSE TestReturns(Fail(CurrentCase, Nothing,
                                   Some("Failed to write YAML: " \o "os error")))
    /\ UNCHANGED <<test_cases, skip_cases, mode, results, observed, calls, returned,
                   extractVars, csvVars>>

\* run_test: forge export test.yaml test.xlsx
TestForge ==
    /\ pc = "forge"
    /\ calls' = Append(calls, [engine |-> "forge", case |-> CaseIndex])
    /\ \E out \in ProcessOutcomes :
          /\ envlog' = Logged("forge", out, <<>>)
          /\ CASE out = "ok" ->
                    /\ ws' = [ws EXCEPT !.files = Put(@, "test.xlsx", File(<<>>))]
                    /\ pc' = "oracle"
                    /\ UNCHANGED <<cur, csv_files>>
               [] out = "spawn_err" ->
                    TestReturns(Fail(CurrentCase, Nothing,
                                     Some("Failed to run forge: " \o "os error")))
               [] out = "exit_nonzero" ->
                    TestReturns(Fail(CurrentCase, Nothing,
                                     Some("forge export failed: " \o "stderr")))
    /\ UNCHANGED <<test_cases, skip_cases, mode, results, observed, returned,
                   extractVars, csvVars>>

\* run_test: self.engine.xlsx_to_csv_all_sheets(&xlsx_path, temp_dir.path())
TestOracle ==
    /\ pc = "oracle"
    /\ calls' = Append(calls, [engine |-> "ssconvert", case |-> CaseIndex])
    /\ \E out \in ProcessOutcomes, sheets \in TestExports :
          /\ out # "ok" => sheets = <<>>
          /\ envlog' = Logged("oracle", out, sheets)
          /\ CASE out = "ok" ->
                    LET files == WriteSheets(ws.files, "test", sheets, 0)
                        found == xlsx_to_csv_all_sheets(files, "test")
                    IN  IF found.ok
                        THEN /\ ws' = [ws EXCEPT !.files = files]
                             /\ csv_files' = found.paths
                             /\ pc' = "search"
                             /\ UNCHANGED cur
                        ELSE TestReturns(Fail(CurrentCase, Nothing,
                                              Some("CSV conversion failed: " \o found.err)))
               [] out = "spawn_err" ->
                    TestReturns(Fail(CurrentCase, Nothing,
                        Some("CSV conversion failed: " \o "Failed to run ssconvert: "
                             \o "os error")))
               [] out = "exit_nonzero" ->
                    TestReturns(Fail(CurrentCase, Nothing,
                        Some("CSV conversion failed: " \o "ssconvert failed: " \o "stderr")))
    /\ UNCHANGED <<test_cases, skip_cases, mode, results, observed, returned,
                   extractVars, csvVars>>

\* run_test: the search of the sheets and the judgment
TestSearch ==
    /\ pc = "search"
    /\ TestReturns(SearchSheets(ws.files, csv_files, CurrentCase))
    /\ UNCHANGED <<test_cases, skip_cases, mode, results, observed, calls, envlog, returned,
                   extractVars, csvVars>>

\* run_batch returns with more pushed onto results: the TempDir, if any, is dropped
BatchReturns(more) ==
    /\ results' = results \o more
    /\ ws' = NoWs
    /\ csv_files' = <<>>
    /\ pc' = "return"

\* run_batch: tempfile::tempdir()
BatchTempDir ==
    /\ pc = "b_tempdir"
    /\ \E ok \in BOOLEAN :
          /\ envlog' = Logged("tempdir", IF ok THEN "ok" ELSE "err", <<>>)
          /\ IF ok
             THEN /\ ws' = FreshWs
                  /\ pc' = "b_write"
                  /\ UNCHANGED <<results, csv_files>>
             ELSE BatchReturns(FailAll(test_cases, "Failed to create temp dir: " \o "os error"))
    /\ UNCHANGED <<test_cases, skip_cases, mode, cur, observed, calls, returned,
                   extractVars, csvVars>>

\* run_batch: fs::write(&yaml_path, &yaml_content)
BatchWriteYaml ==
    /\ pc = "b_write"
    /\ \E ok \in BOOLEAN :
          /\ envlog' = Logged("write", IF ok THEN "ok" ELSE "err", <<>>)
          /\ IF ok
             THEN /\ ws' = [ws EXCEPT !.files = Put(@, "batch.yaml", File(<<>>))]
                  /\ pc' = "b_forge"
                  /\ UNCHANGED <<results, csv_files>>
             ELSE BatchReturns(FailAll(test_cases, "Failed to write YAML: " \o "os error"))
    /\ UNCHANGED <<test_cases, skip_cases, mode, cur, observed, calls, returned,
                   extractVars, csvVars>>

\* run_batch: forge export batch.yaml batch.xlsx
BatchForge ==
    /\ pc = "b_forge"
    /\ calls' = Append(calls, [engine |-> "forge", case |-> 0])
    /\ \E out \in ProcessOutcomes :
          /\ envlog' = Logged("forge", out, <<>>)
          /\ CASE out = "ok" ->
                    /\ ws' = [ws EXCEPT !.files = Put(@, "batch.xlsx", File(<<>>))]
                    /\ pc' = "b_oracle"
                    /\ UNCHANGED <<results, csv_files>>
               [] out = "spawn_err" ->
                    BatchReturns(FailAll(test_cases, "Failed to run forge: " \o "os error"))
               [] out = "exit_nonzero" ->
                    BatchReturns(FailAll(test_cases, "forge export failed: " \o "stderr"))
    /\ UNCHANGED <<test_cases, skip_cases, mode, cur, observed, returned,
                   extractVars, csvVars>>

\* run_batch: self.engine.xlsx_to_csv(&xlsx_path, temp_dir.path())
BatchOracle ==
    /\ pc = "b_oracle"
    /\ calls' = Append(calls, [engine |-> "ssconvert", case |-> 0])
    /\ \E out \in ProcessOutcomes, sheets \in BatchExports(Len(test_cases)) :
          /\ out # "ok" => sheets = <<>>
          /\ envlog' = Logged("oracle", out, sheets)
          /\ CASE out = "ok" ->
                    /\ ws' = [ws EXCEPT !.files = WriteSheets(@, "batch", sheets, 0)]
                    /\ csv_files' = <<xlsx_to_csv("batch")>>
                    /\ pc' = "b_parse"
                    /\ UNCHANGED results
               [] out = "spawn_err" ->
                    BatchReturns(FailAll(test_cases,
                        "CSV conversion failed: " \o "Failed to run ssconvert: " \o "os error"))
               [] out = "exit_nonzero" ->
                    BatchReturns(FailAll(test_cases,
                        "CSV conversion failed: " \o "ssconvert failed: " \o "stderr"))
    /\ UNCHANGED <<test_cases, skip_cases, mode, cur, observed, returned,
                   extractVars, csvVars>>

\* run_batch: parse_batch_csv(&csv_path, len) and the judgment of every case
BatchParse ==
    /\ pc = "b_parse"
    /\ BatchReturns(BatchJudge(test_cases,
           parse_batch_csv(Lookup(ws.files, csv_files[1]), Len(test_cases))))
    /\ UNCHANGED <<test_cases, skip_cases, mode, cur, observed, calls, envlog, returned,
                   extractVars, csvVars>>

\* the strategy returns its list
Return ==
    /\ pc = "return"
    /\ returned' = [returned EXCEPT ![mode] = Some(results)]
    /\ pc' = "done"
    /\ UNCHANGED <<test_cases, skip_cases, mode, results, cur, observed, ws, csv_files,
                   calls, envlog, extractVars, csvVars>>

\* a caller that has run one of run_all and run_batch runs the other on the same runner
RunTheOther ==
    /\ pc = "done"
    /\ \/ mode = "run_all" /\ returned["run_batch"] = Nothing /\ BeginRunBatch
       \/ mode = "run_batch" /\ returned["run_all"] = Nothing /\ BeginRunAll

Next ==
    \/ StartRunAll \/ StartRunAllStreaming \/ StartRunBatch
    \/ StreamSkip \/ Observe \/ Push
    \/ TestTempDir \/ TestWriteYaml \/ TestForge \/ TestOracle \/ TestSearch
    \/ BatchTempDir \/ BatchWriteYaml \/ BatchForge \/ BatchOracle \/ BatchParse
    \/ Return

\* one strategy run once on a loaded runner
Spec == Init /\ [][Next]_vars

\* run_all and run_batch run on the same runner, in either order
SpecBoth == Init /\ [][Next \/ RunTheOther]_vars

(***************************************************************************)
(* Claims about case extraction, under SpecExtract                         *)
(***************************************************************************)
\* the <<section, entry>> pairs of the ScalarGroup sections of the document
Entries ==
    {p \in UNION {{<<g, n>> : n \in EntriesOf(doc.sections[g])} : g \in DOMAIN doc.sections}
       : TRUE}

ScalarAt(p) == doc.sections[p[1]].scalars[p[2]]

Skipped(p) == IsSome(ScalarAt(p).skip)

Runnable(p) ==
    ~Skipped(p) /\ IsSome(ScalarAt(p).formula) /\ IsSome(ScalarAt(p).expected)

Unreserved(p) == ~(Head(p[1]) = "_" \/ p[1] = cSCENARIOS)

NameOf(p) == p[1] \o <<".">> \o p[2]

TestCaseOf(p) ==
    [name |-> NameOf(p), formula |-> ScalarAt(p).formula[1],
     expected |-> ScalarAt(p).expected[1], source_file |-> Nothing,
     forge_version |-> doc.forge_version]

SkipCaseOf(p) == [name |-> NameOf(p), reason |-> ScalarAt(p).skip[1]]

NamesOf(list) == {list[k].name : k \in DOMAIN list}

\* how often r occurs in list
Occurrences(list, r) == Cardinality({k \in DOMAIN list : list[k] = r})

UniqueNames == \A p, q \in Entries : NameOf(p) = NameOf(q) => p = q

\* C9, as stated: every ScalarGroup entry with a skip reason is in the skip list and
\* not in the runnable-case list, and the two lists share no name.
C9_AsStated ==
    ext_cases.done =>
        /\ \A p \in Entries : Skipped(p) =>
              /\ NameOf(p) \in NamesOf(ext_skips.res)
              /\ NameOf(p) \notin NamesOf(ext_cases.res)
        /\ NamesOf(ext_skips.res) \cap NamesOf(ext_cases.res) = {}

\* C9, amended: every entry with a skip reason in a ScalarGroup section whose name is
\* not reserved is in the skip list whatever its formula and expected are, every runnable
\* case stems from an entry without a skip reason, and the two lists share no name
\* whenever the qualified names of the document are unique.
C9_SkipNeverRunnable ==
    ext_cases.done =>
        /\ \A p \in Entries : Skipped(p) /\ Unreserved(p) =>
              \E k \in DOMAIN ext_skips.res : ext_skips.res[k] = SkipCaseOf(p)
        /\ \A k \in DOMAIN ext_cases.res :
              \E p \in Entries : ~Skipped(p) /\ Runnable(p) /\ ext_cases.res[k] = TestCaseOf(p)
        /\ UniqueNames => NamesOf(ext_skips.res) \cap NamesOf(ext_cases.res) = {}

C9_Witness ==
    /\ ext_cases.done
    /\ \E p \in Entries :
          /\ Skipped(p) /\ Unreserved(p)
          /\ IsSome(ScalarAt(p).formula) /\ IsSome(ScalarAt(p).expected)
          /\ NameOf(p) \in NamesOf(ext_skips.res)
    /\ ext_cases.res # <<>>

\* C10, as stated: every ScalarGroup entry with formula and expected and no skip reason
\* yields exactly one TestCase named <section>.<entry> with that formula and value.
C10_AsStated ==
    ext_cases.done =>
        \A p \in Entries : Runnable(p) =>
            /\ Cardinality({k \in DOMAIN ext_cases.res : ext_cases.res[k].name = NameOf(p)}) = 1
            /\ \E k \in DOMAIN ext_cases.res : ext_cases.res[k] = TestCaseOf(p)

\* C10, amended: the runnable cases are, one for one, the entries with formula and
\* expected and no skip reason of the ScalarGroup sections whose name is not reserved,
\* each named <section>.<entry> and carrying its formula and expected value; the name
\* singles the case out whenever the qualified names of the document are unique.
C10_OneCasePerEntry ==
    ext_cases.done =>
        /\ Len(ext_cases.res) = Cardinality({p \in Entries : Runnable(p) /\ Unreserved(p)})
        /\ \A p \in Entries : Runnable(p) /\ Unreserved(p) =>
              /\ Occurrences(ext_cases.res, TestCaseOf(p))
                   = Cardinality({q \in Entries : Runnable(q) /\ Unreserved(q)
                                                  /\ TestCaseOf(q) = TestCaseOf(p)})
              /\ UniqueNames =>
                   Cardinality({k \in DOMAIN ext_cases.res
                                  : ext_cases.res[k].name = NameOf(p)}) = 1

C10_Witness ==
    /\ ext_cases.done
    /\ Len(ext_cases.res) = 2
    /\ \E p \in Entries : Runnable(p) /\ Unreserved(p) /\ p[1] = cA_B

\* an entry without a skip reason that lacks formula or expected
Dropped(p) == ~Skipped(p) /\ ~(IsSome(ScalarAt(p).formula) /\ IsSome(ScalarAt(p).expected))

\* C11: an entry with no skip reason that lacks formula or expected is in
\* neither list: every test case stems from an entry with both and every skip
\* case from an entry with a skip reason, the lists are no longer than the
\* number of such entries, and where the qualified names of the document are
\* distinct the name of a dropped entry is in neither list.
C11_DroppedInNeither ==
    ext_cases.done =>
        /\ \A k \in DOMAIN ext_cases.res :
              \E p \in Entries : Runnable(p) /\ ext_cases.res[k] = TestCaseOf(p)
        /\ \A k \in DOMAIN ext_skips.res :
              \E p \in Entries : Skipped(p) /\ ext_skips.res[k] = SkipCaseOf(p)
        /\ Len(ext_cases.res) + Len(ext_skips.res)
             = Cardinality({p \in Entries : ~Dropped(p) /\ Unreserved(p)})
        /\ UniqueNames =>
              \A p \in Entries : Dropped(p) =>
                  /\ NameOf(p) \notin NamesOf(ext_cases.res)
                  /\ NameOf(p) \notin NamesOf(ext_skips.res)

\* a document with an entry that has a formula and no expected value, beside one that runs
C11_Witness ==
    /\ ext_cases.done
    /\ \E p \in Entries :
          /\ Dropped(p) /\ Unreserved(p)
          /\ IsSome(ScalarAt(p).formula)
    /\ Len(ext_cases.res) = 1
    /\ ext_skips.res = <<>>

\* the document without its reserved sections
Stripped ==
    [doc EXCEPT !.sections = [g \in {h \in DOMAIN doc.sections : ~IsReserved(h)}
                                |-> doc.sections[g]]]

\* C12: a section whose name begins with '_' or is "scenarios" contributes no
\* test case and no skip case, whatever it holds: both lists are those of the
\* document without these sections, and every case stems from an entry of
\* another section.
C12_ReservedContributeNothing ==
    ext_cases.done =>
        /\ \E iter \in Iters(Stripped) :
              /\ ext_cases.res = extract_test_cases(Stripped, Nothing, iter)
              /\ ext_skips.res = extract_skip_cases(Stripped, iter)
        /\ \A k \in DOMAIN ext_cases.res :
              \E p \in Entries :
                  Unreserved(p) /\ Runnable(p) /\ ext_cases.res[k] = TestCaseOf(p)
        /\ \A k \in DOMAIN ext_skips.res :
              \E p \in Entries :
                  Unreserved(p) /\ Skipped(p) /\ ext_skips.res[k] = SkipCaseOf(p)

\* a document with a runnable entry in "scenarios" and a skipped entry in a section _m
C12_Witness ==
    /\ ext_cases.done
    /\ \E p, q \in Entries :
          /\ p[1] = cSCENARIOS /\ Runnable(p)
          /\ Head(q[1]) = "_" /\ Skipped(q)
    /\ ext_cases.res = <<>>
    /\ ext_skips.res = <<>>

(***************************************************************************)
(* Claims about result extraction, under SpecCsv                           *)
(***************************************************************************)
Readable(line) == line # ReadError

NumberIn(cell) == ParseF64(Remove(cell, ","))

\* the positions of the cells of a row that are a label followed by a number
LabelledAt(cells) ==
    {i \in 1..Len(cells) - 1 : (cells[i] = cRESULT \/ cells[i] = cTEST_RESULT)
                                /\ NumberIn(cells[i + 1]).ok}

FirstOf(S) == CHOOSE i \in S : \A j \in S : i <= j

\* the rows a search reads: those before the first undecodable line
RECURSIVE ReadRows(_)
ReadRows(lines) ==
    IF lines = <<>> \/ Head(lines) = ReadError THEN <<>>
    ELSE <<Cells(Head(lines))>> \o ReadRows(Tail(lines))

\* a cell that alone would be accepted by the fallback
Close(cell, expected) ==
    NumberIn(cell).ok /\ Lt(AbsDiff(NumberIn(cell).v, expected), Num(FALSE, 0, 10000, 0))

\* the rows of the file that hold a labelled number or a close cell
Yielding(rows, expected) ==
    {r \in 1..Len(rows) : LabelledAt(rows[r]) # {}
                          \/ \E i \in 1..Len(rows[r]) : Close(rows[r][i], expected)}

\* C3, as stated: the value returned from a row that holds a labelled number is that
\* labelled value; an unlabelled close cell is returned only from a row without one.
C3_LabelTakesPrecedence ==
    (find_out.done /\ csv_in.exists /\ find_out.res.ok) =>
        LET rows == ReadRows(csv_in.lines)
            r    == FirstOf(Yielding(rows, exp_in))
        IN  LabelledAt(rows[r]) # {} =>
                find_out.res.v = NumberIn(rows[r][FirstOf(LabelledAt(rows[r])) + 1]).v

RECURSIVE Flatten(_)
Flatten(rows) == IF rows = <<>> THEN <<>> ELSE Head(rows) \o Flatten(Tail(rows))

AllRows(lines) == [k \in 1..Len(lines) |-> IF Readable(lines[k]) THEN Cells(lines[k]) ELSE <<>>]

NoLabel(lines) ==
    \A k \in 1..Len(lines) : \A i \in 1..Len(AllRows(lines)[k]) :
        AllRows(lines)[k][i] # cRESULT /\ AllRows(lines)[k][i] # cTEST_RESULT

AllReadable(lines) == \A k \in 1..Len(lines) : Readable(lines[k])

\* |a - b| <= 0.0001 and |a - b| < 0.001, on the limbs
AtMostTenThousandth(a, b) == ~Lt(Num(FALSE, 0, 10000, 0), AbsDiff(a, b))

BelowThousandth(a, b) == Lt(AbsDiff(a, b), Num(FALSE, 0, 100000, 0))

LabelIndex(label) ==
    IF IsPrefix(cASSUMPTIONS_TEST, label)
    THEN ParseUsize(SubSeq(label, Len(cASSUMPTIONS_TEST) + 1, Len(label)))
    ELSE IF IsPrefix(cTEST, label)
    THEN ParseUsize(SubSeq(label, Len(cTEST) + 1, Len(label)))
    ELSE [ok |-> FALSE, n |-> 0]

\* line is a row that carries a number for index idx
ResultRow(line, idx) ==
    /\ Readable(line)
    /\ Len(Cells(line)) >= 2
    /\ LabelIndex(Cells(line)[1]).ok
    /\ LabelIndex(Cells(line)[1]).n = idx
    /\ NumberIn(Cells(line)[2]).ok

Permuted(lines, q) == [k \in 1..Len(lines) |-> lines[q[k]]]

\* C4, as stated: every permutation of the rows gives the same result vector.
C4_AsStated ==
    (batch_out.done /\ csv_in.exists) =>
        \A q \in Orders(1..Len(csv_in.lines)) :
            parse_batch_csv(File(Permuted(csv_in.lines, q)), count_in) = batch_out.res

\* no index below count is carried by two rows
OneRowPerIndex(lines, count) ==
    \A idx \in 0..count - 1 :
        Cardinality({k \in 1..Len(lines) : ResultRow(lines[k], idx)}) <= 1

\* C4, amended: for every exported table in which no index is carried by two rows, every
\* permutation of the rows gives the same result vector; slot i holds the number of the
\* row labelled test_i or assumptions.test_i, and an index with no such row stays the
\* error slot "Missing result in CSV output".
C4_IndexKeyed ==
    (batch_out.done /\ csv_in.exists /\ OneRowPerIndex(csv_in.lines, count_in)) =>
        /\ Len(batch_out.res) = count_in
        /\ \A q \in Orders(1..Len(csv_in.lines)) :
              parse_batch_csv(File(Permuted(csv_in.lines, q)), count_in) = batch_out.res
        /\ \A idx \in 0..count_in - 1 :
              LET rows == {k \in 1..Len(csv_in.lines) : ResultRow(csv_in.lines[k], idx)}
              IN  IF rows = {}
                  THEN batch_out.res[idx + 1] = Err("Missing result in CSV output")
                  ELSE \E k \in rows :
                          batch_out.res[idx + 1] = Ok(NumberIn(Cells(csv_in.lines[k])[2]).v)

C4_Witness ==
    /\ batch_out.done /\ csv_in.exists
    /\ OneRowPerIndex(csv_in.lines, count_in)
    /\ count_in = 2
    /\ Len(csv_in.lines) = 2
    /\ batch_out.res[1].ok /\ batch_out.res[2].ok
    /\ ResultRow(csv_in.lines[1], 1) /\ ResultRow(csv_in.lines[2], 0)
    /\ IsPrefix(cASSUMPTIONS_TEST, csv_in.lines[2])

RECURSIVE QuotedFieldsFrom(_, _, _, _)
QuotedFieldsFrom(s, quoted, field, acc) ==
    IF s = <<>> THEN Append(acc, field)
    ELSE IF Head(s) = "\"" THEN QuotedFieldsFrom(Tail(s), ~quoted, field, acc)
    ELSE IF Head(s) = "," /\ ~quoted THEN QuotedFieldsFrom(Tail(s), FALSE, <<>>, Append(acc, field))
    ELSE QuotedFieldsFrom(Tail(s), quoted, Append(field, Head(s)), acc)

\* the fields of a row of delimiter-separated text whose fields may be quoted: a
\* comma inside quotes belongs to the field
QuotedFields(line) == QuotedFieldsFrom(line, FALSE, <<>>, <<>>)

HasSeparator(field) == \E k \in 1..Len(field) : field[k] = ","

\* C5: for a row whose value field is a quoted number with grouping separators, batch
\* extraction and individual extraction recover the number with the separators removed.
C5_SeparatorsStripped ==
    (batch_out.done /\ find_out.done /\ csv_in.exists /\ Len(csv_in.lines) = 1
       /\ Readable(csv_in.lines[1])) =>
        LET fields == QuotedFields(csv_in.lines[1])
            full   == ParseF64(Remove(fields[2], ","))
        IN  (Len(fields) = 2 /\ HasSeparator(fields[2]) /\ full.ok) =>
               /\ (LabelIndex(fields[1]).ok /\ LabelIndex(fields[1]).n < count_in) =>
                     batch_out.res[LabelIndex(fields[1]).n + 1] = Ok(full.v)
               /\ (fields[1] = cRESULT \/ fields[1] = cTEST_RESULT) =>
                     find_out.res = Ok(full.v)


(***************************************************************************)
(* Claims about the execution strategies, under Spec and SpecBoth          *)
(***************************************************************************)
\* the list a finished call of strategy m returned
Returned(m) == returned[m][1]

HasReturned(m) == IsSome(returned[m])

\* the result of test case k in the list of a strategy
ResultOf(m, k) == Returned(m)[Len(skip_cases) + k]

Finished(m) == pc = "done" /\ mode = m

\* every result produced so far: the list being built and the one in hand
Produced == {results[k] : k \in DOMAIN results} \cup {cur[k] : k \in DOMAIN cur}

SameNumber(a, b) == AbsDiff(a, b) = Zero

\* C1: whenever a value was extracted for a case, the result is Pass only if
\* the value equals the expected value exactly; any nonzero difference gives
\* Fail carrying the extracted value.
C1_ExactEquality ==
    \A r \in Produced :
        /\ r.status = "pass" => SameNumber(r.actual[1], r.expected)
        /\ (r.status = "fail" /\ IsSome(r.actual)) => ~SameNumber(r.actual[1], r.expected)

\* the events of strategy m at step
EventsAt(m, step) == SelectSeq(envlog[m], LAMBDA e : e.step = step)

AllSucceeded(m) == \A k \in DOMAIN envlog[m] : envlog[m][k].outcome = "ok"

\* the values the oracle exported, case by case, when run_all exported one
\* sheet with the one labelled row per document
ExportedSingly(values) ==
    /\ Len(EventsAt("run_all", "oracle")) = Len(values)
    /\ \A k \in DOMAIN values :
           EventsAt("run_all", "oracle")[k].sheets = <<LabelledSheet(values[k])>>

\* the same values exported by the oracle on the first sheet of the batch
\* document, one labelled row per case
ExportedTogether(values) ==
    /\ Len(EventsAt("run_batch", "oracle")) = 1
    /\ EventsAt("run_batch", "oracle")[1].sheets = <<BatchSheet(values)>>

\* C2: when both engines succeed and the oracle exports every case's value
\* on one labelled row of the first sheet, run_batch and run_all give every
\* case the same Pass/Fail outcome.
C2_BatchAgreesWithRunAll ==
    (/\ HasReturned("run_all") /\ HasReturned("run_batch")
     /\ AllSucceeded("run_all") /\ AllSucceeded("run_batch"))
    => \A values \in [DOMAIN test_cases -> OracleValues] :
           (ExportedSingly(values) /\ ExportedTogether(values))
           => \A k \in DOMAIN test_cases :
                  ResultOf("run_batch", k).status = ResultOf("run_all", k).status

\* a step of run_batch failed: the temporary directory, the write of the
\* document, the subject's export or the oracle's conversion
BatchWideFailure == \E k \in DOMAIN envlog["run_batch"] : envlog["run_batch"][k].outcome # "ok"

\* C7: when a shared step of run_batch fails, every test case gets a Fail
\* with no actual value and one and the same error message; none passes.
C7_BatchFailsAsOne ==
    (Finished("run_batch") /\ BatchWideFailure)
    => /\ Len(Returned("run_batch")) = Len(skip_cases) + Len(test_cases)
       /\ \A k \in DOMAIN test_cases :
              /\ ResultOf("run_batch", k).status = "fail"
              /\ ResultOf("run_batch", k).name = test_cases[k].name
              /\ ResultOf("run_batch", k).actual = Nothing
              /\ IsSome(ResultOf("run_batch", k).error)
              /\ ResultOf("run_batch", k).error = ResultOf("run_batch", 1).error

\* a batch of two cases whose subject export exited with a failure
C7_Witness ==
    /\ Finished("run_batch")
    /\ Len(test_cases) = 2
    /\ test_cases[1].name # test_cases[2].name
    /\ Len(EventsAt("run_batch", "forge")) = 1
    /\ EventsAt("run_batch", "forge")[1].outcome = "exit_nonzero"
    /\ ResultOf("run_batch", 2).error = Some("forge export failed: " \o "stderr")

\* the number of invocations of an engine in the call under way
Invocations(engine) == Len(SelectSeq(calls, LAMBDA c : c.engine = engine))

Succeeded(m, step) ==
    \E k \in DOMAIN envlog[m] : envlog[m][k].step = step /\ envlog[m][k].outcome = "ok"

\* C8 as stated: every run of run_batch invokes the subject exactly once and
\* the oracle exactly once, whatever the number of test cases.
C8_AsStated ==
    Finished("run_batch") => Invocations("forge") = 1 /\ Invocations("ssconvert") = 1

\* C8: a run of run_batch invokes each engine at most once, whatever the
\* number of test cases: the subject exactly once when there is a test case
\* and the temporary directory and the document were written, otherwise not
\* at all; the oracle exactly once when the subject's export succeeded,
\* otherwise not at all.
C8_AtMostOnceEach ==
    mode = "run_batch"
    => /\ Invocations("forge") <= 1
       /\ Invocations("ssconvert") <= 1
       /\ Finished("run_batch")
          => /\ Invocations("forge") = 1
                 <=> (/\ test_cases # <<>>
                      /\ Succeeded("run_batch", "tempdir")
                      /\ Succeeded("run_batch", "write"))
             /\ Invocations("ssconvert") = 1 <=> Succeeded("run_batch", "forge")

\* a finished batch of two cases that invoked each engine once
C8_Witness ==
    /\ Finished("run_batch")
    /\ Len(test_cases) = 2
    /\ Invocations("forge") = 1
    /\ Invocations("ssconvert") = 1

\* the number of loaded cases: self.test_cases.len() + self.skip_cases.len()
total_tests == Len(test_cases) + Len(skip_cases)

\* C13: whatever the strategy and whatever failed on the way, the list
\* returned holds one result per loaded case: the Skip result of every skip
\* case in skip_cases order, then a Pass or a Fail for every test case in
\* test_cases order under the case's name; its length is total_tests().
C13_OneResultPerCase ==
    \A m \in Modes :
        Finished(m) =>
            /\ Returned(m) = results
            /\ Len(Returned(m)) = total_tests
            /\ \A k \in DOMAIN skip_cases : Returned(m)[k] = Skip(skip_cases[k])
            /\ \A k \in DOMAIN test_cases :
                  /\ ResultOf(m, k).status \in {"pass", "fail"}
                  /\ ResultOf(m, k).name = test_cases[k].name
                  /\ ResultOf(m, k).formula = test_cases[k].formula
                  /\ ResultOf(m, k).expected = test_cases[k].expected

\* a finished batch of one skip case and two test cases whose temporary
\* directory could not be created
C13_Witness ==
    /\ Finished("run_batch")
    /\ Len(skip_cases) = 1
    /\ Len(test_cases) = 2
    /\ ~Succeeded("run_batch", "tempdir")
    /\ Len(results) = 3
    /\ results[1].status = "skip"
    /\ results[3].status = "fail"

\* run_test as a function of what the environment did: the result, and the
\* number of environment steps taken
RunTestOn(log, tc) ==
    IF log[1].outcome # "ok"
    THEN [result |-> Fail(tc, Nothing, Some("Failed to create temp dir: " \o "os error")),
          used |-> 1]
    ELSE IF log[2].outcome # "ok"
    THEN [result |-> Fail(tc, Nothing, Some("Failed to write YAML: " \o "os error")),
          used |-> 2]
    ELSE IF log[3].outcome = "spawn_err"
    THEN [result |-> Fail(tc, Nothing, Some("Failed to run forge: " \o "os error")),
          used |-> 3]
    ELSE IF log[3].outcome = "exit_nonzero"
    THEN [result |-> Fail(tc, Nothing, Some("forge export failed: " \o "stderr")),
          used |-> 3]
    ELSE IF log[4].outcome = "spawn_err"
    THEN [result |-> Fail(tc, Nothing, Some("CSV conversion failed: "
                             \o "Failed to run ssconvert: " \o "os error")),
          used |-> 4]
    ELSE IF log[4].outcome = "exit_nonzero"
    THEN [result |-> Fail(tc, Nothing, Some("CSV conversion failed: "
                             \o "ssconvert failed: " \o "stderr")),
          used |-> 4]
    ELSE LET files == WriteSheets(<<>>, "test", log[4].sheets, 0)
             found == xlsx_to_csv_all_sheets(files, "test")
         IN  [result |-> IF found.ok THEN SearchSheets(files, found.paths, tc)
                         ELSE Fail(tc, Nothing, Some("CSV conversion failed: " \o found.err)),
              used |-> 4]

RECURSIVE RunTestsOn(_, _)
\* the results of run_test on cases in turn, given what the environment did
RunTestsOn(log, cases) ==
    IF cases = <<>> THEN <<>>
    ELSE LET first == RunTestOn(log, Head(cases))
         IN  <<first.result>>
             \o RunTestsOn(SubSeq(log, first.used + 1, Len(log)), Tail(cases))

\* the places of run_all_streaming between two results
BetweenResults == {"skip", "tempdir", "write", "forge", "oracle", "search", "return", "done"}

\* C14: run_all_streaming hands every result to the observer once, in result
\* order, before the result is appended and before the next case starts; the
\* results observed are the list returned, and that list is the one run_all
\* returns when the engines behave the same.
C14_ObserverSeesEachResult ==
    /\ mode = "run_all_streaming" =>
          /\ pc \in BetweenResults => observed = results /\ cur = Nothing
          /\ pc = "observe" => observed = results /\ IsSome(cur)
          /\ pc = "push" => IsSome(cur) /\ observed = Append(results, cur[1])
          /\ pc \in {"tempdir", "write", "forge", "oracle", "search"} =>
                Len(observed) = Len(skip_cases) + CaseIndex - 1
          /\ pc = "done" => observed = Returned("run_all_streaming")
    /\ \A m \in {"run_all", "run_all_streaming"} :
          Finished(m) =>
              Returned(m) = SkipResults(skip_cases) \o RunTestsOn(envlog[m], test_cases)

\* a finished run_all_streaming of one skip case and two test cases, the
\* first failed and the second passed
C14_Witness ==
    /\ Finished("run_all_streaming")
    /\ Len(observed) = 3
    /\ observed[1].status = "skip"
    /\ observed[2].status = "fail"
    /\ observed[3].status = "pass"

\* the places of run_test and run_batch at which the TempDir is in scope
InWorkspaceScope == {"write", "forge", "oracle", "search",
                     "b_write", "b_forge", "b_oracle", "b_parse"}

\* the document name of the call under way
BaseName == IF mode = "run_batch" THEN "batch" ELSE "test"

\* the sheets the oracle exported in the call under way, if it has
LastExport ==
    LET last == envlog[mode][Len(envlog[mode])]
    IN  IF last.step = "oracle" /\ last.outcome = "ok" THEN last.sheets ELSE <<>>

\* the files the call under way has written into its workspace
OwnFiles ==
    {BaseName \o ".yaml", BaseName \o ".xlsx"}
        \cup {SheetPath(BaseName, i) : i \in 0..(Len(LastExport) - 1)}

\* the number of temporary directories created in the run under way
WorkspacesCreated ==
    Len(SelectSeq(envlog[mode], LAMBDA e : e.step = "tempdir" /\ e.outcome = "ok"))

\* C15: a temporary workspace exists only inside the run_test or run_batch
\* call that created it: it starts empty, holds only what that call wrote,
\* and is gone when the call returns, on every exit path; each call creates
\* at most one, so there is never more than one and none serves two cases.
C15_WorkspaceScoped ==
    /\ ws.live <=> pc \in InWorkspaceScope
    /\ ~ws.live => ws = NoWs /\ csv_files = <<>>
    /\ pc \in {"write", "b_write"} => ws = FreshWs
    /\ ws.live =>
          /\ DOMAIN ws.files \subseteq OwnFiles
          /\ \A i \in 0..(Len(LastExport) - 1) :
                Lookup(ws.files, SheetPath(BaseName, i)) = File(LastExport[i + 1])
    /\ \A k \in DOMAIN csv_files :
          mode # "run_batch" => csv_files[k] \in DOMAIN ws.files
    /\ mode = "run_batch" => WorkspacesCreated <= 1
    /\ mode \in {"run_all", "run_all_streaming"} =>
          WorkspacesCreated <= (IF pc \in {"return", "done"} THEN Len(test_cases)
                                ELSE IF Len(results) < Len(skip_cases) THEN 0
                                ELSE Len(results) - Len(skip_cases) + 1)

\* the second case of a run searching its own export after the first case
\* searched one too
C15_Witness ==
    /\ mode = "run_all"
    /\ pc = "search"
    /\ CaseIndex = 2
    /\ WorkspacesCreated = 2
    /\ Len(EventsAt("run_all", "oracle")) = 2
    /\ EventsAt("run_all", "oracle")[1].sheets # EventsAt("run_all", "oracle")[2].sheets
    /\ ws.live

\* the positions in the log of the tempdir steps: one per run_test call
CallStarts(log) == SelectSeq([k \in DOMAIN log |-> k], LAMBDA k : log[k].step = "tempdir")

\* the events of the k-th run_test call of strategy m
CaseLog(m, k) ==
    LET starts == CallStarts(envlog[m])
    IN  SubSeq(envlog[m], starts[k],
               IF k < Len(starts) THEN starts[k + 1] - 1 ELSE Len(envlog[m]))

\* the run_test calls started so far
CallsStarted(m) == Len(CallStarts(envlog[m]))

StepsOf(log, step) == SelectSeq(log, LAMBDA e : e.step = step)

InvocationsFor(engine, k) ==
    Len(SelectSeq(calls, LAMBDA c : c.engine = engine /\ c.case = k))

\* what run_test reports when the subject's export fails
ForgeDiagnostic(outcome) ==
    IF outcome = "spawn_err" THEN "Failed to run forge: " \o "os error"
    ELSE "forge export failed: " \o "stderr"

\* C18: in run_all and run_all_streaming every test case is executed at most
\* once: per case the subject and the oracle are invoked at most once, the
\* oracle only after the subject's export succeeded, and a failure of the
\* subject gives Fail with no actual value and the diagnostic, with no oracle
\* invocation for that case; skip cases cause no invocation.
C18_NoRetry ==
    mode \in {"run_all", "run_all_streaming"} =>
        /\ CallsStarted(mode) <= Len(test_cases)
        /\ \A j \in DOMAIN calls : calls[j].case \in 1..CallsStarted(mode)
        /\ test_cases = <<>> => calls = <<>>
        /\ pc = "skip" => calls = <<>>
        /\ \A k \in 1..CallsStarted(mode) :
              LET forge  == StepsOf(CaseLog(mode, k), "forge")
                  oracle == StepsOf(CaseLog(mode, k), "oracle")
              IN  /\ InvocationsFor("forge", k) = Len(forge)
                  /\ InvocationsFor("ssconvert", k) = Len(oracle)
                  /\ Len(forge) <= 1
                  /\ Len(oracle) <= 1
                  /\ Len(oracle) = 1 => Len(forge) = 1 /\ forge[1].outcome = "ok"
                  /\ (Len(forge) = 1 /\ forge[1].outcome # "ok") =>
                        /\ CaseLog(mode, k)[Len(CaseLog(mode, k))].step = "forge"
                        /\ Len(results) >= Len(skip_cases) + k =>
                              results[Len(skip_cases) + k]
                                = Fail(test_cases[k], Nothing,
                                       Some(ForgeDiagnostic(forge[1].outcome)))

\* a finished run of one skip case and two test cases: the subject failed on
\* the first, and both engines ran on the second
C18_Witness ==
    /\ Finished("run_all")
    /\ Len(skip_cases) = 1
    /\ calls = <<[engine |-> "forge", case |-> 1], [engine |-> "forge", case |-> 2],
                 [engine |-> "ssconvert", case |-> 2]>>
    /\ results[2].status = "fail"
    /\ results[2].actual = Nothing

\* what the sheets in order decide for tc: the first that yields a value
DecidedBy(sheets, tc) ==
    LET found(i) == find_result_in_csv(File(sheets[i]), tc.expected)
        hits == {i \in DOMAIN sheets : found(i).ok}
    IN  IF hits = {}
        THEN Fail(tc, Nothing, Some("Could not find result in any CSV sheet"))
        ELSE LET first == CHOOSE i \in hits : \A j \in hits : i <= j
             IN  IF Judged(found(first).v, tc.expected) THEN Pass(tc, found(first).v)
                 ELSE Fail(tc, Some(found(first).v), Nothing)

\* the sheets whose files xlsx_to_csv_all_sheets collects: indices 0..9
Collected(sheets) ==
    SubSeq(sheets, 1, IF Len(sheets) < SheetProbeLimit THEN Len(sheets) ELSE SheetProbeLimit)

\* the test cases of a run_all or run_all_streaming whose oracle exported
\* sheets and whose result is in the list
Searched ==
    IF mode \in {"run_all", "run_all_streaming"}
    THEN {k \in 1..CallsStarted(mode) :
            /\ Len(results) >= Len(skip_cases) + k
            /\ LET oracle == StepsOf(CaseLog(mode, k), "oracle")
               IN  oracle # <<>> /\ oracle[1].outcome = "ok" /\ oracle[1].sheets # <<>>}
    ELSE {}

SheetsOf(k) == StepsOf(CaseLog(mode, k), "oracle")[1].sheets

OneOfActualAndError(r) ==
    r.status = "fail" =>
        /\ r.actual = Nothing <=> IsSome(r.error)
        /\ IsSome(r.actual) <=> r.error = Nothing
        /\ IsSome(r.error) => r.error[1] # ""
        /\ IsSome(r.actual) =>
              ~Judged(r.actual[1], r.expected) /\ ~SameNumber(r.actual[1], r.expected)

\* what the loop of run_batch makes of the cases, whatever text the file it
\* parses holds
BatchOutcomes(cases) ==
    UNION {LET judged == BatchJudge(cases, parse_batch_csv(f, Len(cases)))
           IN  {judged[k] : k \in DOMAIN judged} : f \in BatchFiles}

\* C20: every Fail produced by run_test or run_batch carries exactly one of
\* actual and error: no actual value exactly when a message is present, and an
\* actual value exactly when there is no message, the value then being one
\* that was judged different from the expected value.
C20_ActualOrError ==
    /\ \A r \in Produced : OneOfActualAndError(r)
    /\ pc = "b_parse" => \A r \in BatchOutcomes(test_cases) : OneOfActualAndError(r)

\* a finished run_all whose two cases failed, one on a value that differs and
\* one without a value
C20_Witness ==
    /\ Finished("run_all")
    /\ Len(test_cases) = 2
    /\ \A k \in 1..2 : ResultOf("run_all", k).status = "fail"
    /\ IsSome(ResultOf("run_all", 1).actual)
    /\ IsSome(ResultOf("run_all", 2).error)

(***************************************************************************)
(* Claims about sheet probing, under SpecProbe                             *)
(***************************************************************************)
\* the file of sheet index i exists in the directory probed
Present(i) == SheetPath("test", i) \in DOMAIN probe_in

\* the length of the run of existing indices that starts at 0, cut at the limit
ContiguousRun ==
    CHOOSE n \in 0..SheetProbeLimit :
        /\ \A i \in 0..(n - 1) : Present(i)
        /\ n = SheetProbeLimit \/ ~Present(n)

RECURSIVE YamlFilesIn(_, _)
\* the yaml files below the directory at dir, with their paths, in visiting order
YamlFilesIn(dir, entries) ==
    IF entries = <<>> THEN <<>>
    ELSE LET e    == Head(entries)
             path == dir \o "/" \o e.name
         IN  (IF e.kind = "dir" THEN YamlFilesIn(path, e.entries)
              ELSE IF e.kind = "yaml" THEN <<[path |-> path, file |-> e]>>
              ELSE <<>>)
             \o YamlFilesIn(dir, Tail(entries))

YamlFiles == YamlFilesIn(tree_in.name, tree_in.entries)

RECURSIVE AllReadableIn(_)
\* every directory and every yaml file listed can be read
AllReadableIn(entries) ==
    \A k \in DOMAIN entries :
        /\ entries[k].kind \in {"dir", "yaml"} => entries[k].readable
        /\ entries[k].kind = "dir" => AllReadableIn(entries[k].entries)

TreeReadable == tree_in.kind = "dir" /\ tree_in.readable /\ AllReadableIn(tree_in.entries)

Malformed(f) == f.file.readable /\ ~IsSome(f.file.parsed)

WellFormed(f) == f.file.readable /\ IsSome(f.file.parsed)

RECURSIVE CasesOfFiles(_)
\* the test cases of the well-formed files of fs, file after file
CasesOfFiles(fs) ==
    IF fs = <<>> THEN <<>>
    ELSE (IF WellFormed(Head(fs))
          THEN extract_test_cases(Head(fs).file.parsed[1], Some(Head(fs).path),
                                  IterOf(Head(fs).file.parsed[1]))
          ELSE <<>>) \o CasesOfFiles(Tail(fs))

RECURSIVE SkipsOfFiles(_)
\* the skip cases of the well-formed files of fs, file after file
SkipsOfFiles(fs) ==
    IF fs = <<>> THEN <<>>
    ELSE (IF WellFormed(Head(fs))
          THEN extract_skip_cases(Head(fs).file.parsed[1], IterOf(Head(fs).file.parsed[1]))
          ELSE <<>>) \o SkipsOfFiles(Tail(fs))

\* C16 as stated: with a file that fails to parse in the tree, the load
\* returns success with the test and skip cases of every other file.
C16_AsStated ==
    (load_out.done /\ tree_in.kind = "dir" /\ \E k \in DOMAIN YamlFiles : Malformed(YamlFiles[k]))
    => /\ load_out.res.ok
       /\ load_out.res.cases = CasesOfFiles(YamlFiles)
       /\ load_out.res.skips = SkipsOfFiles(YamlFiles)

\* C16: when every directory and every yaml file of the tree can be read, the
\* load returns success with the test and skip cases of every file that
\* parses, in visiting order, whether it comes before or after a file that
\* fails to parse, and a file that fails to parse contributes nothing; the
\* load fails exactly when a directory or a yaml file cannot be read.
C16_MalformedDoesNotAbort ==
    load_out.done =>
        /\ load_out.res.ok <=> TreeReadable
        /\ TreeReadable =>
              /\ load_out.res.cases = CasesOfFiles(YamlFiles)
              /\ load_out.res.skips = SkipsOfFiles(YamlFiles)
              /\ \A k \in DOMAIN load_out.res.cases :
                    \E j \in DOMAIN YamlFiles :
                        /\ WellFormed(YamlFiles[j])
                        /\ load_out.res.cases[k].source_file = Some(YamlFiles[j].path)

\* a successful load that visited a malformed file before a well-formed one
\* of a subdirectory
C16_Witness ==
    /\ load_out.done
    /\ load_out.res.ok
    /\ Len(YamlFiles) = 2
    /\ Malformed(YamlFiles[1])
    /\ WellFormed(YamlFiles[2])
    /\ YamlFiles[2].path = "tests/sub/a.yaml"
    /\ Len(load_out.res.cases) = 1
    /\ Len(load_out.res.skips) = 1

(***************************************************************************)
(* Claims about table data, under SpecTable                                *)
(***************************************************************************)
\* the Table sections extract_table_data_yaml is meant to render
Rendered(g) ==
    /\ table_in.sections[g].kind = "Table"
    /\ ~IsReserved(g)
    /\ g # cASSUMPTIONS

\* C17: for every Table section rendered, reading the fragment back yields
\* the same table: the same column names, each column of the same kind with
\* the same values in the same order.
C17_TableRoundTrip ==
    table_out.done =>
        \A g \in DOMAIN table_in.sections :
            Rendered(g) =>
                /\ table_out.res.read.ok
                /\ g \in DOMAIN table_out.res.read.sections
                /\ table_out.res.read.sections[g] = table_in.sections[g].columns

\* a table whose strings and formulas hold no quote and no backslash does
\* come back as it was
PlainTablesComeBack ==
    table_out.done =>
        \A g \in DOMAIN table_in.sections :
            (/\ Rendered(g)
             /\ \A c \in DOMAIN table_in.sections[g].columns :
                   /\ \A k \in DOMAIN table_in.sections[g].columns[c].strs :
                         \A j \in DOMAIN table_in.sections[g].columns[c].strs[k] :
                             table_in.sections[g].columns[c].strs[k][j] \notin {"\"", "\\"}
                   /\ \A j \in DOMAIN table_in.sections[g].columns[c].formula :
                         table_in.sections[g].columns[c].formula[j] \notin {"\"", "\\"})
            => /\ table_out.res.read.ok
               /\ table_out.res.read.sections[g] = table_in.sections[g].columns

====
